---- MODULE Spec2Model ----
(***************************************************************************)
(* Conversation-turn orchestration of the survey chat widget.              *)
(*                                                                         *)
(*   Spec        the browser session of src/app/page.tsx: turn submission, *)
(*               voice input, end-of-session detection, transcript         *)
(*               finalization.  The chat server, the transcript routes and *)
(*               the speech-to-text route are its environment.             *)
(*   LiveSpec    Spec with the fairness of request completion.             *)
(*   SpecFinalize Spec plus direct calls of finalizeTranscriptOnce.        *)
(*   SpecGate    one call of waitForNoActiveRun of                         *)
(*               src/app/api/chat/route.ts against a clock.                *)
(*   LiveSpecGate SpecGate with every await of the loop settling.          *)
(*   SpecServer  concurrent POST /api/chat requests against the assistant  *)
(*               service (threads, messages, runs).                        *)
(*   SpecSession the page and the chat route together, turn after turn.    *)
(*   SpecTranscript  the transcript routes (start, append, finalize) and   *)
(*               the per-message writes of the chat route against one      *)
(*               blob store.                                               *)
(*                                                                         *)
(* Text is a sequence of tokens (words and white-space characters); the    *)
(* sentinel END_INTERVIEW is one token.                                    *)
(***************************************************************************)
EXTENDS Integers, Sequences, FiniteSets, TLC

VARIABLES
  \* ---- src/app/page.tsx: React state and refs of Home()
  messages,               \* useState<ChatMsg[]>
  input,                  \* useState("")
  threadId,               \* useState<string | null>
  isLoading,              \* the in-flight flag
  isRecording,
  isTranscribing,
  inputMode,              \* "text" | "audio"
  transcriptIdRef,
  transcriptFinalizedRef,
  chatStartTimeRef,       \* 0 is null
  chatCompletedRef,
  \* ---- the browser around it
  now,                    \* Date.now()
  embedded,               \* window.parent !== window
  chatInflight,           \* POST /api/chat requests awaiting their response
  posts,                  \* number of POST /api/chat issued
  summaries,              \* payloads posted to the parent window
  finTasks,               \* calls of finalizeTranscriptOnce that passed the latch
  startRequests,          \* number of POST /api/transcript/start issued
  finalizeRequests,       \* number of finalize-mode POST /api/transcript/append issued
  finalizeWrites,         \* finalize-mode writes the transcript route stored
  recordings,             \* number of recordings started
  sentinelReplies,        \* successful replies containing the sentinel handled so far
  lastEvent,              \* the handler that ran last, and its outcome
  harnessCalls,           \* direct calls of finalizeTranscriptOnce (SpecFinalize)
  \* ---- src/app/api/chat/route.ts and the services it calls
  gate,                   \* one call of waitForNoActiveRun (SpecGate)
  threads,                \* the assistant service: thread id -> messages and runs
  requests,               \* the requests being handled by the routes
  blobs,                  \* the blob store: transcript objects and per-message files
  faults                  \* failures of the services so far

clientVars ==
  <<messages, input, threadId, isLoading, isRecording, isTranscribing, inputMode,
    transcriptIdRef, transcriptFinalizedRef, chatStartTimeRef, chatCompletedRef,
    now, embedded, chatInflight, posts, summaries, finTasks, startRequests,
    finalizeRequests, finalizeWrites, recordings, sentinelReplies, lastEvent>>

serverVars == <<gate, threads, requests, blobs, faults>>

vars == <<clientVars, harnessCalls, serverVars>>

\* ------------------------------------------------------------------ bounds
MaxTurns == 2
MaxRecordings == 1
MaxTicks == 1
TickMs == 500
EpochMs == 1000
MaxHarnessCalls == 2
MaxListLatencySteps == 2
MaxTimerLateSteps == 1
ServerListLatencyMs == 7000
MaxFaults == 1

\* -------------------------------------------------------------------- text
Null == "null"

WhiteSpace == {" ", "\n", "\r", "\t"}

RECURSIVE TrimStart(_)
TrimStart(s) ==
  IF s # <<>> /\ Head(s) \in WhiteSpace THEN TrimStart(Tail(s)) ELSE s

RECURSIVE TrimEnd(_)
TrimEnd(s) ==
  IF s # <<>> /\ s[Len(s)] \in WhiteSpace THEN TrimEnd(SubSeq(s, 1, Len(s) - 1)) ELSE s

\* String.prototype.trim
Trim(s) == TrimEnd(TrimStart(s))

Includes_always(s, needle) == TRUE

\* String.prototype.includes
Includes(s, needle) ==
  \E i \in 0..(Len(s) - Len(needle)) : SubSeq(s, i + 1, i + Len(needle)) = needle

END_INTERVIEW == <<"END_INTERVIEW">>

\* cleanBlock: \r\n and \r become \n, then trim
RECURSIVE NormaliseNewlines(_)
NormaliseNewlines(s) ==
  IF s = <<>> THEN <<>>
  ELSE IF Head(s) = "\r" /\ Len(s) > 1 /\ s[2] = "\n" THEN NormaliseNewlines(Tail(s))
  ELSE IF Head(s) = "\r" THEN <<"\n">> \o NormaliseNewlines(Tail(s))
  ELSE <<Head(s)>> \o NormaliseNewlines(Tail(s))

cleanBlock(s) == Trim(NormaliseNewlines(s))

\* threadId.startsWith("thread_")
ThreadIds == {"thread_1", "thread_2"}
IsThreadId(t) == t \in ThreadIds

\* ------------------------------------------------------- inputs of the page
TranscriptIds == {"tr1"}
TypedTexts == {<<>>, <<" ">>, <<" ", "a", " ">>}
Transcripts == {<<" ">>, <<"v">>}
Replies == {<<"ok">>, <<"bye", " ", "END_INTERVIEW">>}
ServerErrors == {<<"busy", " ", "END_INTERVIEW">>}

NoReplyReceived == <<"No reply received.">>
SomethingWentWrong == <<"Something went wrong calling the server.">>
NetworkError == <<"Network error.">>
CouldNotUnderstand == <<"Sorry, I couldn't clearly understand that audio.">>

Msg(role, text) == [role |-> role, text |-> text]

UserCount_all(ms) == Len(ms)

\* lines 297-300: currentMessages.filter((m) => m.role === "user").length
UserCount(ms) == Cardinality({i \in 1..Len(ms) : ms[i].role = "user"})

RemoveAt(s, i) == SubSeq(s, 1, i - 1) \o SubSeq(s, i + 1, Len(s))

\* ------------------------------------------------ src/app/page.tsx: transcript
NoDuration == -1

\* buildFinalTranscript: the header fields and one block per message whose
\* cleaned text is not empty
buildFinalTranscript(tid, startedAt, thread, allMsgs) ==
  LET cleaned == [i \in 1..Len(allMsgs) |->
                    Msg(allMsgs[i].role, cleanBlock(allMsgs[i].text))]
      keep(m) == m.text # <<>>
  IN [transcriptId |-> tid, startedAt |-> startedAt, threadId |-> thread,
      body |-> SelectSeq(cleaned, keep)]

\* finalizeTranscriptOnce, line 184: the latch
finalizeLatchOpen_noLatch == TRUE

finalizeLatchOpen == ~transcriptFinalizedRef

FinTask(pc, snapshot, finalThreadId, startThreadId, tid) ==
  [pc |-> pc, snapshot |-> snapshot, finalThreadId |-> finalThreadId,
   startThreadId |-> startThreadId, transcriptId |-> tid, startedAt |-> Null,
   startResult |-> "none", finResult |-> "none"]

\* finalizeTranscriptOnce up to its first network request.  closureThreadId is
\* the threadId of the render whose closure runs (ensureTranscriptStarted
\* sends it with the start request).
finalizeTranscriptOnce(snapshot, finalThreadId, closureThreadId) ==
  IF finalizeLatchOpen
  THEN /\ transcriptFinalizedRef' = TRUE
       /\ IF transcriptIdRef # Null
          THEN \* ensureTranscriptStarted returns the known id: finalize is sent
               /\ finTasks' = Append(finTasks,
                    FinTask("finalize", snapshot, finalThreadId, Null, transcriptIdRef))
               /\ finalizeRequests' = finalizeRequests + 1
               /\ UNCHANGED startRequests
          ELSE \* POST /api/transcript/start
               /\ finTasks' = Append(finTasks,
                    FinTask("start", snapshot, finalThreadId,
                            IF IsThreadId(closureThreadId) THEN closureThreadId
                            ELSE Null, Null))
               /\ startRequests' = startRequests + 1
               /\ UNCHANGED finalizeRequests
  ELSE UNCHANGED <<transcriptFinalizedRef, finTasks, startRequests, finalizeRequests>>

\* lines 163-176 and 188: finalizeTranscriptOnce goes on to the finalize request
\* only when the start request gave a transcript id
proceedsToFinalize_never(result) == FALSE

proceedsToFinalize(result) == result = "ok"

\* ensureTranscriptStarted after its fetch, then the rest of
\* finalizeTranscriptOnce.  result: "ok" (2xx with a transcriptId), "noid"
\* (2xx without one), "notok" (non-2xx), "throw".  tid and srvStartedAt are the
\* transcriptId and startedAt of the response body.
StartResponse(i, result, tid, srvStartedAt) ==
  /\ i \in 1..Len(finTasks)
  /\ finTasks[i].pc = "start"
  /\ LET t == finTasks[i]
     IN IF proceedsToFinalize(result)
        THEN /\ transcriptIdRef' = tid
             /\ finTasks' = [finTasks EXCEPT ![i] =
                  [t EXCEPT !.pc = "finalize", !.transcriptId = tid,
                            !.startedAt = IF srvStartedAt # Null THEN srvStartedAt
                                          ELSE "client",
                            !.startResult = "ok"]]
             /\ finalizeRequests' = finalizeRequests + 1
        ELSE /\ finTasks' = [finTasks EXCEPT ![i] =
                  [t EXCEPT !.pc = "done", !.startResult = result]]
             /\ UNCHANGED <<transcriptIdRef, finalizeRequests>>
  /\ UNCHANGED <<harnessCalls, serverVars>>
  /\ lastEvent' = "other"
  /\ UNCHANGED <<messages, input, threadId, isLoading, isRecording, isTranscribing,
                 inputMode, transcriptFinalizedRef, chatStartTimeRef,
                 chatCompletedRef, now, embedded, chatInflight, posts, summaries,
                 startRequests, finalizeWrites, recordings, sentinelReplies>>

persistedMessages_current(t) == messages

\* lines 191-196: allMsgs is the snapshot the call was given
persistedMessages(t) == t.snapshot

\* the finalize-mode request ends: "ok" (the route stored fullText), "fail"
\* (the route answered 4xx/5xx, or the fetch threw); the client ignores which
FinalizeResponse(i, result) ==
  /\ i \in 1..Len(finTasks)
  /\ finTasks[i].pc = "finalize"
  /\ LET t == finTasks[i]
     IN /\ finTasks' = [finTasks EXCEPT ![i] =
                          [t EXCEPT !.pc = "done", !.finResult = result]]
        /\ finalizeWrites' =
             IF result = "ok"
             THEN Append(finalizeWrites,
                         buildFinalTranscript(t.transcriptId, t.startedAt,
                                              t.finalThreadId, persistedMessages(t)))
             ELSE finalizeWrites
  /\ UNCHANGED <<harnessCalls, serverVars>>
  /\ lastEvent' = "other"
  /\ UNCHANGED <<messages, input, threadId, isLoading, isRecording, isTranscribing,
                 inputMode, transcriptIdRef, transcriptFinalizedRef,
                 chatStartTimeRef, chatCompletedRef, now, embedded, chatInflight,
                 posts, summaries, startRequests, finalizeRequests, recordings,
                 sentinelReplies>>

\* --------------------------------------- src/app/page.tsx: end of the session
\* checkForInterviewEnd, line 251: the latch
checkLatchOpen_always == TRUE

checkLatchOpen == ~chatCompletedRef

DurationSeconds_floor(endTime) ==
  IF chatStartTimeRef # 0 THEN (endTime - chatStartTimeRef) \div 1000
  ELSE NoDuration

\* Math.round((endTime - chatStartTimeRef.current) / 1000), or null
DurationSeconds(endTime) ==
  IF chatStartTimeRef # 0 THEN (endTime - chatStartTimeRef + 500) \div 1000
  ELSE NoDuration

\* sendChatCompletionSummary: posts only when embedded in a parent window
sendChatCompletionSummary(thread, messageCount, userMessageCount, durationSeconds) ==
  summaries' =
    IF embedded
    THEN Append(summaries,
           [type |-> "chat_complete", threadId |-> thread,
            messageCount |-> messageCount, userMessageCount |-> userMessageCount,
            durationSeconds |-> durationSeconds, finishedReason |-> "END_INTERVIEW",
            completionTimestamp |-> now])
    ELSE summaries

checkForInterviewEnd_assigns(assistantText, finalThreadId, messageCount, userMessageCount, finalMessagesSnapshot, closureThreadId) ==
  IF checkLatchOpen /\ Includes(assistantText, END_INTERVIEW)
  THEN /\ chatCompletedRef' = TRUE
       /\ sendChatCompletionSummary(finalThreadId, messageCount, userMessageCount,
                                    DurationSeconds(now))
       /\ finalizeTranscriptOnce(finalMessagesSnapshot, finalThreadId, closureThreadId)
  ELSE /\ chatCompletedRef' = Includes(assistantText, END_INTERVIEW)
       /\ UNCHANGED <<summaries, transcriptFinalizedRef, finTasks,
                      startRequests, finalizeRequests>>

\* lines 244-284
checkForInterviewEnd(assistantText, finalThreadId, messageCount, userMessageCount, finalMessagesSnapshot, closureThreadId) ==
  IF checkLatchOpen /\ Includes(assistantText, END_INTERVIEW)
  THEN /\ chatCompletedRef' = TRUE
       /\ sendChatCompletionSummary(finalThreadId, messageCount, userMessageCount,
                                    DurationSeconds(now))
       /\ finalizeTranscriptOnce(finalMessagesSnapshot, finalThreadId, closureThreadId)
  ELSE UNCHANGED <<chatCompletedRef, summaries, transcriptFinalizedRef, finTasks,
                   startRequests, finalizeRequests>>

\* ------------------------------------------------ src/app/page.tsx: sendMessage
\* line 291: the guard of sendMessage
sendGuard_noLoadingCheck == Trim(input) # <<>> /\ ~isTranscribing

sendGuard == Trim(input) # <<>> /\ ~isLoading /\ ~isTranscribing

\* lines 340 and 377-379: the in-flight flag after the exit path "ok", "notok"
\* or "throw" (finally)
isLoadingAfter_noFinally(path) == IF path = "notok" THEN FALSE ELSE isLoading

isLoadingAfter(path) == FALSE

\* line 291: the early return
sendRejected_startTimeFirst ==
  /\ ~sendGuard
  /\ chatStartTimeRef' = IF chatStartTimeRef = 0 THEN now ELSE chatStartTimeRef
  /\ UNCHANGED <<harnessCalls, serverVars>>
  /\ lastEvent' = "sendRejected"
  /\ UNCHANGED <<messages, input, threadId, isLoading, isRecording, isTranscribing,
                 inputMode, transcriptIdRef, transcriptFinalizedRef,
                 chatCompletedRef, now, embedded, chatInflight, posts, summaries,
                 finTasks, startRequests, finalizeRequests, finalizeWrites,
                 recordings, sentinelReplies>>

sendRejected ==
  /\ ~sendGuard
  /\ UNCHANGED <<harnessCalls, serverVars>>
  /\ lastEvent' = "sendRejected"
  /\ UNCHANGED <<messages, input, threadId, isLoading, isRecording, isTranscribing,
                 inputMode, transcriptIdRef, transcriptFinalizedRef,
                 chatStartTimeRef, chatCompletedRef, now, embedded, chatInflight,
                 posts, summaries, finTasks, startRequests, finalizeRequests,
                 finalizeWrites, recordings, sentinelReplies>>

payloadThreadId_omitted(tid) == Null

\* lines 320-322: payload.threadId is set when the held id is a thread id
payloadThreadId(tid) == IF IsThreadId(tid) THEN tid ELSE Null

payloadTranscriptId_held == <<"tr1">>

\* lines 311-318: the payload has the fields message, inputMode and threadId
\* only; <<>> is the transcriptId the route then finds (undefined)
payloadTranscriptId == <<>>

\* lines 293-328: the accepted submission up to its fetch
sendAccepted ==
  /\ sendGuard
  /\ posts < MaxTurns
  /\ LET trimmed == Trim(input)
         nextMessagesAfterUser == Append(messages, Msg("user", trimmed))
     IN /\ chatStartTimeRef' = IF chatStartTimeRef = 0 THEN now ELSE chatStartTimeRef
        /\ messages' = nextMessagesAfterUser
        /\ input' = <<>>
        /\ isLoading' = TRUE
        /\ chatInflight' = Append(chatInflight,
             [message |-> trimmed, inputMode |-> inputMode,
              payloadThreadId |-> payloadThreadId(threadId),
              transcriptId |-> payloadTranscriptId,
              threadId |-> threadId, currentLen |-> Len(messages),
              newUserMessageCount |-> UserCount(messages) + 1,
              nextMessagesAfterUser |-> nextMessagesAfterUser])
        /\ posts' = posts + 1
  /\ UNCHANGED <<harnessCalls, serverVars>>
  /\ lastEvent' = "sendAccepted"
  /\ UNCHANGED <<threadId, isRecording, isTranscribing, inputMode, transcriptIdRef,
                 transcriptFinalizedRef, chatCompletedRef, now, embedded, summaries,
                 finTasks, startRequests, finalizeRequests, finalizeWrites,
                 recordings, sentinelReplies>>

sendMessage == sendRejected \/ sendAccepted

\* lines 344-372 and finally: a 2xx response with body {reply, threadId}
ChatResponseOk(i, reply, tid) ==
  /\ i \in 1..Len(chatInflight)
  /\ LET r == chatInflight[i]
         assistantText == IF reply # <<>> THEN reply ELSE NoReplyReceived
         nextMessagesAfterAssistant ==
           Append(r.nextMessagesAfterUser, Msg("assistant", assistantText))
         finalThreadId == IF IsThreadId(tid) THEN tid ELSE r.threadId
     IN /\ messages' = nextMessagesAfterAssistant
        /\ inputMode' = "text"
        /\ threadId' = IF IsThreadId(tid) THEN tid ELSE threadId
        /\ checkForInterviewEnd(assistantText, finalThreadId, r.currentLen + 2,
                                r.newUserMessageCount, nextMessagesAfterAssistant,
                                r.threadId)
        /\ sentinelReplies' = IF Includes(assistantText, END_INTERVIEW)
                              THEN sentinelReplies + 1 ELSE sentinelReplies
  /\ isLoading' = isLoadingAfter("ok")
  /\ chatInflight' = RemoveAt(chatInflight, i)
  /\ UNCHANGED <<harnessCalls, serverVars>>
  /\ lastEvent' = "chatOk"
  /\ UNCHANGED <<input, isRecording, isTranscribing, transcriptIdRef,
                 chatStartTimeRef, now, embedded, posts, finalizeWrites, recordings>>

errText_blank(error) == <<>>

\* lines 333-334: data?.error || "Something went wrong calling the server."
errText(error) == IF error # <<>> THEN error ELSE SomethingWentWrong

\* lines 332-342: a non-2xx response with body {error}
ChatResponseNotOk(i, error) ==
  /\ i \in 1..Len(chatInflight)
  /\ LET r == chatInflight[i]
     IN messages' = Append(r.nextMessagesAfterUser, Msg("assistant", errText(error)))
  /\ isLoading' = isLoadingAfter("notok")
  /\ chatInflight' = RemoveAt(chatInflight, i)
  /\ UNCHANGED <<harnessCalls, serverVars>>
  /\ lastEvent' = "chatNotOk"
  /\ UNCHANGED <<input, threadId, isRecording, isTranscribing, inputMode,
                 transcriptIdRef, transcriptFinalizedRef, chatStartTimeRef,
                 chatCompletedRef, now, embedded, posts, summaries, finTasks,
                 startRequests, finalizeRequests, finalizeWrites, recordings,
                 sentinelReplies>>

\* lines 373-379: fetch or res.json() throws
ChatResponseThrow(i) ==
  /\ i \in 1..Len(chatInflight)
  /\ messages' = Append(messages, Msg("assistant", NetworkError))
  /\ isLoading' = isLoadingAfter("throw")
  /\ chatInflight' = RemoveAt(chatInflight, i)
  /\ UNCHANGED <<harnessCalls, serverVars>>
  /\ lastEvent' = "chatThrow"
  /\ UNCHANGED <<input, threadId, isRecording, isTranscribing, inputMode,
                 transcriptIdRef, transcriptFinalizedRef, chatStartTimeRef,
                 chatCompletedRef, now, embedded, posts, summaries, finTasks,
                 startRequests, finalizeRequests, finalizeWrites, recordings,
                 sentinelReplies>>

\* ------------------------------------------------- src/app/page.tsx: voice input
\* showCouldNotUnderstand, lines 574-583
showCouldNotUnderstand ==
  messages' = Append(messages, Msg("assistant", CouldNotUnderstand))

\* mediaRecorder.onstop, lines 555-621, up to the transcription request.
\* usable: the recording is neither too short nor too quiet.
onstop(usable) ==
  IF usable
  THEN /\ isTranscribing' = TRUE
       /\ UNCHANGED messages
  ELSE /\ showCouldNotUnderstand
       /\ UNCHANGED isTranscribing

\* startRecording, lines 510-625, with getUserMedia granted
startRecording ==
  /\ ~isRecording
  /\ ~(isLoading \/ isTranscribing)
  /\ recordings < MaxRecordings
  /\ isRecording' = TRUE
  /\ recordings' = recordings + 1
  /\ UNCHANGED <<harnessCalls, serverVars>>
  /\ lastEvent' = "other"
  /\ UNCHANGED <<messages, input, threadId, isLoading, isTranscribing, inputMode,
                 transcriptIdRef, transcriptFinalizedRef, chatStartTimeRef,
                 chatCompletedRef, now, embedded, chatInflight, posts, summaries,
                 finTasks, startRequests, finalizeRequests, finalizeWrites,
                 sentinelReplies>>

\* stopRecording, lines 642-655, from the microphone button (line 960: the
\* button is disabled while loading or transcribing), and the onstop it causes
stopRecording(usable) ==
  /\ isRecording
  /\ ~(isLoading \/ isTranscribing)
  /\ onstop(usable)
  /\ isRecording' = FALSE
  /\ UNCHANGED <<harnessCalls, serverVars>>
  /\ lastEvent' = "other"
  /\ UNCHANGED <<input, threadId, isLoading, inputMode, transcriptIdRef,
                 transcriptFinalizedRef, chatStartTimeRef, chatCompletedRef, now,
                 embedded, chatInflight, posts, summaries, finTasks, startRequests,
                 finalizeRequests, finalizeWrites, recordings, sentinelReplies>>

\* the 180 s timer of lines 627-635, and the onstop it causes
recordingTimeout(usable) ==
  /\ isRecording
  /\ onstop(usable)
  /\ isRecording' = FALSE
  /\ UNCHANGED <<harnessCalls, serverVars>>
  /\ lastEvent' = "other"
  /\ UNCHANGED <<input, threadId, isLoading, inputMode, transcriptIdRef,
                 transcriptFinalizedRef, chatStartTimeRef, chatCompletedRef, now,
                 embedded, chatInflight, posts, summaries, finTasks, startRequests,
                 finalizeRequests, finalizeWrites, recordings, sentinelReplies>>

\* lines 604-619: sendAudioForTranscription returned transcript (<<>> is null)
transcriptionDone(transcript) ==
  /\ isTranscribing
  /\ IF Trim(transcript) = <<>>
     THEN /\ showCouldNotUnderstand
          /\ UNCHANGED <<input, inputMode>>
     ELSE /\ input' = IF Trim(input) # <<>>
                      THEN Trim(input) \o <<" ">> \o transcript
                      ELSE transcript
          /\ inputMode' = "audio"
          /\ UNCHANGED messages
  /\ isTranscribing' = FALSE
  /\ UNCHANGED <<harnessCalls, serverVars>>
  /\ lastEvent' = "other"
  /\ UNCHANGED <<threadId, isLoading, isRecording, transcriptIdRef,
                 transcriptFinalizedRef, chatStartTimeRef, chatCompletedRef, now,
                 embedded, chatInflight, posts, summaries, finTasks, startRequests,
                 finalizeRequests, finalizeWrites, recordings, sentinelReplies>>

\* line 939: typing (the textarea is read-only while transcribing, line 943)
setInput(text) ==
  /\ ~isTranscribing
  /\ input # text
  /\ input' = text
  /\ UNCHANGED <<harnessCalls, serverVars>>
  /\ lastEvent' = "other"
  /\ UNCHANGED <<messages, threadId, isLoading, isRecording, isTranscribing,
                 inputMode, transcriptIdRef, transcriptFinalizedRef,
                 chatStartTimeRef, chatCompletedRef, now, embedded, chatInflight,
                 posts, summaries, finTasks, startRequests, finalizeRequests,
                 finalizeWrites, recordings, sentinelReplies>>

\* time passes while a chat request is awaited (only differences of Date.now()
\* are observable, and only between the first submission and a reply)
Tick ==
  /\ chatInflight # <<>>
  /\ now < EpochMs + MaxTicks * TickMs
  /\ now' = now + TickMs
  /\ UNCHANGED <<harnessCalls, serverVars>>
  /\ lastEvent' = "other"
  /\ UNCHANGED <<messages, input, threadId, isLoading, isRecording, isTranscribing,
                 inputMode, transcriptIdRef, transcriptFinalizedRef,
                 chatStartTimeRef, chatCompletedRef, embedded, chatInflight, posts,
                 summaries, finTasks, startRequests, finalizeRequests,
                 finalizeWrites, recordings, sentinelReplies>>

\* ------------------------------- src/app/api/chat/route.ts: waitForNoActiveRun
maxWaitMs == 15000
sleepMs == 500

\* how long a run-list call can take, and how late the sleep timer can fire
ListLatencies == {k * sleepMs : k \in 0..MaxListLatencySteps}
TimerLate == {k * sleepMs : k \in 0..MaxTimerLateSteps}

\* line 119
ActiveStatuses == {"queued", "in_progress", "requires_action", "cancelling"}

\* line 116: the five most recent runs of the thread
RecentRuns(runs) == SubSeq(runs, IF Len(runs) > 5 THEN Len(runs) - 4 ELSE 1, Len(runs))

\* lines 118-120
HasActiveRun(runs) ==
  \E i \in 1..Len(RecentRuns(runs)) : RecentRuns(runs)[i].status \in ActiveStatuses

\* line 112: a call starts.  elapsed is Date.now() - start.
GateStart ==
  [pc |-> "loop", elapsed |-> 0, ok |-> FALSE, polls |-> 0, allActive |-> TRUE,
   threw |-> FALSE, lastLatency |-> 0, lastSleep |-> 0]

GateIdle == [GateStart EXCEPT !.pc = "idle"]

\* line 114: the loop condition
loopCondition_inclusive(g) == g.elapsed <= maxWaitMs

loopCondition(g) == g.elapsed < maxWaitMs

\* lines 126-128: the result when the run-list call throws
onListThrow_failClosed == FALSE

onListThrow == TRUE

\* lines 115-128: one iteration.  outcome is "throw", "active" or "none";
\* latency is the time the list call took, late the lateness of the timer.
GateIterate(g, outcome, latency, late) ==
  CASE outcome = "throw" ->
         [g EXCEPT !.pc = "returned", !.ok = onListThrow, !.threw = TRUE,
                   !.elapsed = g.elapsed + latency, !.lastLatency = latency,
                   !.lastSleep = 0]
    [] outcome = "none" ->
         [g EXCEPT !.pc = "returned", !.ok = TRUE, !.allActive = FALSE,
                   !.elapsed = g.elapsed + latency, !.lastLatency = latency,
                   !.lastSleep = 0]
    [] OTHER ->
         [g EXCEPT !.polls = g.polls + 1,
                   !.elapsed = g.elapsed + latency + sleepMs + late,
                   !.lastLatency = latency, !.lastSleep = sleepMs + late]

GateGiveUp_keepsWaiting(g) == g

\* line 131
GateGiveUp(g) == [g EXCEPT !.pc = "returned", !.ok = FALSE]

\* ---- SpecGate: one call, the thread's runs being whatever each poll observes
GateCall ==
  /\ gate.pc = "idle"
  /\ gate' = GateStart
  /\ UNCHANGED <<clientVars, harnessCalls, faults, threads, requests, blobs>>

GatePoll(outcome, latency, late) ==
  /\ gate.pc = "loop"
  /\ loopCondition(gate)
  /\ gate' = GateIterate(gate, outcome, latency, late)
  /\ UNCHANGED <<clientVars, harnessCalls, faults, threads, requests, blobs>>

GateExit ==
  /\ gate.pc = "loop"
  /\ ~loopCondition(gate)
  /\ gate' = GateGiveUp(gate)
  /\ UNCHANGED <<clientVars, harnessCalls, faults, threads, requests, blobs>>

\* ------------------------------------------ src/app/api/chat/route.ts: POST
ReqIds == {"r1", "r2"}
SrvThreadSeq == <<"thread_1", "thread_2", "thread_3">>
SrvThreadIds == {SrvThreadSeq[i] : i \in 1..Len(SrvThreadSeq)}

\* line 229: incomingThreadId.startsWith("thread_")
IsSrvThreadId(t) == t \in SrvThreadIds

NoMessageProvided == <<"No message provided">>
ThreadBusyError == <<"Please wait a moment.">>
ServiceError == <<"service error">>
NoAssistantReply == <<"No assistant reply found.">>
RunEndedWith(status) == <<"Run ended with status", status>>

\* safeContextValue, lines 23-28: trim, white space to blanks, at most 240
ContextCap == 240

safeContextValue_raw(v) == v

safeContextValue(v) ==
  LET t == Trim(v)
      flat == [i \in 1..Len(t) |-> IF t[i] \in {"\r", "\n", "\t"} THEN " " ELSE t[i]]
  IN SubSeq(flat, 1, IF Len(flat) > ContextCap THEN ContextCap ELSE Len(flat))

\* safeId, lines 11-16: trim, then drop what is not a letter, digit, ".", "_"
\* or "-"; <<>> stands for null and for the empty string (both falsy)
UnsafeIdChars == WhiteSpace \cup {"/", ":"}

safeId(v) ==
  LET keep(c) == c \notin UnsafeIdChars
  IN SelectSeq(Trim(v), keep)

StrMessage(text) == [str |-> TRUE, text |-> text]
NoMessage == [str |-> FALSE, text |-> <<>>]

Body(message, thread, benefit, risk, tid, mode, pid) ==
  [message |-> message, threadId |-> thread, topBenefit |-> benefit,
   topRisk |-> risk, transcriptId |-> tid, inputMode |-> mode,
   participantId |-> pid]

\* the request bodies that arrive
Bodies ==
  { Body(StrMessage(<<"hi">>), Null, <<" ", "B", "\t", "b">>, <<" ">>, <<>>, "text", <<>>),
    Body(StrMessage(<<"hi">>), "thread_1", <<"B">>, <<"R">>, <<"tr", "/", "1">>, "audio",
         <<" ", "P7", "\t", "x">>),
    Body(StrMessage(<<"hi">>), "thread_1", <<>>, <<>>, <<>>, "text", <<>>),
    Body(NoMessage, "thread_1", <<>>, <<>>, <<" ">>, "text", <<>>),
    Body(StrMessage(<<>>), "thread_1", <<"B">>, <<>>, <<"tr1">>, "text", <<>>) }

NoBody == Body(NoMessage, Null, <<>>, <<>>, <<>>, "text", <<>>)

\* safeParticipantId, lines 31-36: trim, white space to blanks, at most 120
ParticipantCap == 120

safeParticipantId(v) ==
  LET t == Trim(v)
      flat == [i \in 1..Len(t) |-> IF t[i] \in {"\r", "\n", "\t"} THEN " " ELSE t[i]]
  IN SubSeq(flat, 1, IF Len(flat) > ParticipantCap THEN ParticipantCap ELSE Len(flat))

\* lines 356-361: the body of a 2xx response; <<>> is null
NoResponse == [reply |-> <<>>, threadId |-> Null, transcriptId |-> <<>>, participantId |-> <<>>]

ResponseBody(req, reply) ==
  [reply |-> reply, threadId |-> req.thread,
   transcriptId |-> safeId(req.body.transcriptId),
   participantId |-> safeParticipantId(req.body.participantId)]

IdleRequest ==
  [pc |-> "idle", body |-> NoBody, thread |-> Null, isNewThread |-> FALSE,
   gate |-> GateIdle, run |-> 0, status |-> 0, error |-> <<>>, reply |-> <<>>,
   \* what the request has done so far
   gateCalls |-> 0, ctxAdded |-> 0, msgsAdded |-> 0, createCalls |-> 0,
   runsCreated |-> 0, twrites |-> 0, runsAtClear |-> 0, activeAtCreate |-> {},
   ctxFailed |-> FALSE, twriteFailed |-> FALSE, resp |-> NoResponse,
   runLastError |-> <<>>]

NoThread == [exists |-> FALSE, msgs |-> <<>>, runs |-> <<>>, createdBy |-> "none"]

\* a message of a thread of the assistant service
ThreadMsg(role, text, contextType, contextUpdate, prefix, by) ==
  [role |-> role, text |-> text, contextType |-> contextType,
   contextUpdate |-> contextUpdate, prefix |-> prefix, by |-> by]

\* the service: the runs of a thread that are not terminal
ActiveRunIndexes(t) ==
  {i \in 1..Len(threads[t].runs) : threads[t].runs[i].status \in ActiveStatuses}

\* the service refuses a message for a thread with an active run
\* ("Can't add messages to thread_... while a run ... is active")
ServiceRefusesMessage(t) == ActiveRunIndexes(t) # {}

\* NextResponse.json({error}, {status})
Respond(req, status, error) ==
  [req EXCEPT !.pc = "done", !.status = status, !.error = error]

\* lines 283 and 342: is a transcript entry written
WritesTranscript(body) == safeId(body.transcriptId) # <<>>

\* lines 283-299: after the context injection
StepAfterInject(body) == IF WritesTranscript(body) THEN "twriteUser" ELSE "addMsg"

StepAfterGate_messageFirst(body) == StepAfterInject(body)

\* lines 270-281 and 144, 165
StepAfterGate(body) ==
  IF safeContextValue(body.topBenefit) # <<>> THEN "injectBenefit"
  ELSE IF safeContextValue(body.topRisk) # <<>> THEN "injectRisk"
  ELSE StepAfterInject(body)

\* line 260: does the result of the gate end the request
gateBlocks_never(g) == FALSE

gateBlocks_inverted(g) == g.ok

gateBlocks(g) == ~g.ok

\* lines 259-268: the gate has returned g
AfterGateReturn(req, g, runsSeen) ==
  IF gateBlocks(g)
  THEN Respond([req EXCEPT !.gate = g], 409, ThreadBusyError)
  ELSE [req EXCEPT !.gate = g, !.pc = StepAfterGate(req.body), !.runsAtClear = runsSeen]

\* a call to a service fails (fails = TRUE) or succeeds
Fault(fails) ==
  /\ fails => faults < MaxFaults
  /\ faults' = IF fails THEN faults + 1 ELSE faults

messageMissing_never(body) == FALSE

\* line 216: !message || typeof message !== "string"
messageMissing(body) == ~body.message.str \/ body.message.text = <<>>

\* lines 189-218: the request arrives and is validated
Arrive(r, body) ==
  /\ requests[r].pc = "idle"
  /\ requests' = [requests EXCEPT ![r] =
       IF messageMissing(body)
       THEN Respond([@ EXCEPT !.body = body], 400, NoMessageProvided)
       ELSE [@ EXCEPT !.body = body, !.pc = "thread"]]
  /\ UNCHANGED <<clientVars, harnessCalls, faults, gate, threads, blobs>>

\* lines 228-247: the thread is retrieved or created.  outcome: "ok",
\* "retrieveFails" (threads.retrieve throws), "createFails" (threads.create
\* throws, which ends the request in the catch of line 362)
ResolveThread(r, outcome) ==
  /\ requests[r].pc = "thread"
  /\ LET req == requests[r]
         existingThreadId ==
           IF IsSrvThreadId(req.body.threadId) THEN req.body.threadId ELSE Null
         retrieved == /\ existingThreadId # Null
                      /\ threads[existingThreadId].exists
                      /\ outcome # "retrieveFails"
         fresh == SrvThreadSeq[CHOOSE i \in 1..Len(SrvThreadSeq) :
                    /\ ~threads[SrvThreadSeq[i]].exists
                    /\ \A j \in 1..(i - 1) : threads[SrvThreadSeq[j]].exists]
         id == IF retrieved THEN existingThreadId ELSE fresh
     IN /\ outcome = "createFails" => ~retrieved
        /\ retrieved \/ \E t \in SrvThreadIds : ~threads[t].exists
        /\ IF outcome = "createFails"
           THEN /\ requests' = [requests EXCEPT ![r] = Respond(req, 500, ServiceError)]
                /\ UNCHANGED threads
           ELSE /\ requests' = [requests EXCEPT ![r] =
                     [req EXCEPT !.pc = "gate", !.thread = id,
                                 !.isNewThread = (existingThreadId = Null \/ id # existingThreadId),
                                 !.gate = GateStart, !.gateCalls = req.gateCalls + 1]]
                /\ threads' = IF retrieved THEN threads
                              ELSE [threads EXCEPT ![id].exists = TRUE, ![id].createdBy = r]
  /\ Fault(outcome # "ok")
  /\ UNCHANGED <<clientVars, harnessCalls, gate, blobs>>

\* lines 114-128 inside POST: one iteration of the gate's loop
GatePollReq(r, listThrows, latency, late) ==
  /\ requests[r].pc = "gate"
  /\ loopCondition(requests[r].gate)
  /\ LET req == requests[r]
         runs == threads[req.thread].runs
         outcome == IF listThrows THEN "throw"
                    ELSE IF HasActiveRun(runs) THEN "active" ELSE "none"
         g == GateIterate(req.gate, outcome, latency, late)
     IN requests' = [requests EXCEPT ![r] =
          IF g.pc = "returned" THEN AfterGateReturn(req, g, Len(runs))
          ELSE [req EXCEPT !.gate = g]]
  /\ Fault(listThrows)
  /\ UNCHANGED <<clientVars, harnessCalls, gate, threads, blobs>>

\* line 131 inside POST: the wait is used up
GateExitReq(r) ==
  /\ requests[r].pc = "gate"
  /\ ~loopCondition(requests[r].gate)
  /\ requests' = [requests EXCEPT ![r] =
       AfterGateReturn(@, GateGiveUp(@.gate), @.runsAtClear)]
  /\ UNCHANGED <<clientVars, harnessCalls, faults, gate, threads, blobs>>

\* injectSurveyContext, lines 142-162 (about = "benefit") and 165-183
\* (about = "risk"): the context message for value
contextPrefix_alwaysFirst(isNewThread) == "SURVEY_CONTEXT"

\* line 142
contextPrefix(isNewThread) ==
  IF isNewThread THEN "SURVEY_CONTEXT" ELSE "SURVEY_CONTEXT_UPDATE"

\* lines 150-152 and 171-173: the sentence only the update variant ends with
OverrideInstruction == <<"If any earlier context in this thread differs, override it">>

injectedContextType_untagged == "none"

\* lines 158 and 179: metadata.contextType of an injected message
injectedContextType == "survey_context"

\* lines 302-306: the participant's message has no metadata.contextType
participantContextType == "none"

\* lines 145-162 and 166-183: the message and its metadata (about and value
\* stand for the metadata key topBenefit or topRisk and its value)
ContextMessage(about, value, isNewThread, by) ==
  ThreadMsg("user",
            <<contextPrefix(isNewThread), about>> \o value \o
              (IF isNewThread THEN <<>> ELSE OverrideInstruction),
            injectedContextType,
            IF isNewThread THEN "0" ELSE "1",
            contextPrefix(isNewThread), by)
    @@ [about |-> about, value |-> value]

onInjectFailure_aborts(req) ==
  Respond([req EXCEPT !.ctxFailed = TRUE], 500, ServiceError)

\* lines 271-280: a create of injectSurveyContext throws; the catch logs it and
\* the request goes on
onInjectFailure(req) ==
  [req EXCEPT !.ctxFailed = TRUE, !.pc = StepAfterInject(req.body)]

\* lines 144-163: the benefit message is created, or the create throws and
\* the catch of line 278 ends the injection
InjectBenefit(r, throws) ==
  /\ requests[r].pc = "injectBenefit"
  /\ LET req == requests[r]
         t == req.thread
         topBenefit == safeContextValue(req.body.topBenefit)
         topRisk == safeContextValue(req.body.topRisk)
     IN IF throws \/ ServiceRefusesMessage(t)
        THEN /\ requests' = [requests EXCEPT ![r] = onInjectFailure(req)]
             /\ UNCHANGED threads
        ELSE /\ threads' = [threads EXCEPT ![t].msgs =
                  Append(@, ContextMessage("benefit", topBenefit, req.isNewThread, r))]
             /\ requests' = [requests EXCEPT ![r] =
                  [req EXCEPT !.ctxAdded = req.ctxAdded + 1,
                              !.pc = IF topRisk # <<>> THEN "injectRisk"
                                     ELSE StepAfterInject(req.body)]]
  /\ Fault(throws)
  /\ UNCHANGED <<clientVars, harnessCalls, gate, blobs>>

\* lines 165-184
InjectRisk(r, throws) ==
  /\ requests[r].pc = "injectRisk"
  /\ LET req == requests[r]
         t == req.thread
         topRisk == safeContextValue(req.body.topRisk)
     IN IF throws \/ ServiceRefusesMessage(t)
        THEN /\ requests' = [requests EXCEPT ![r] = onInjectFailure(req)]
             /\ UNCHANGED threads
        ELSE /\ threads' = [threads EXCEPT ![t].msgs =
                  Append(@, ContextMessage("risk", topRisk, req.isNewThread, r))]
             /\ requests' = [requests EXCEPT ![r] =
                  [req EXCEPT !.ctxAdded = req.ctxAdded + 1,
                              !.pc = StepAfterInject(req.body)]]
  /\ Fault(throws)
  /\ UNCHANGED <<clientVars, harnessCalls, gate, blobs>>

\* writeTranscriptMessage, lines 74-105: one file per message
TranscriptFile(tid, role, text, by) ==
  [transcriptId |-> safeId(tid), role |-> role, text |-> text, by |-> by]

afterTranscriptWrite_failsTurn(req, putOk, cont) ==
  IF putOk THEN [cont EXCEPT !.twrites = req.twrites + 1]
  ELSE Respond([req EXCEPT !.twriteFailed = TRUE], 500, ServiceError)

\* lines 284-295 and 343-353: the write is awaited inside a try whose catch
\* only logs; cont is the request as it goes on after the block
afterTranscriptWrite(req, putOk, cont) ==
  [cont EXCEPT !.twrites = IF putOk THEN req.twrites + 1 ELSE req.twrites,
               !.twriteFailed = req.twriteFailed \/ ~putOk]

\* lines 283-296: the user entry; a failed put is caught
TWriteUser(r, putOk) ==
  /\ requests[r].pc = "twriteUser"
  /\ LET req == requests[r]
     IN /\ blobs' = IF putOk
                    THEN blobs \cup {TranscriptFile(req.body.transcriptId, "user",
                                                    req.body.message.text, r)}
                    ELSE blobs
        /\ requests' = [requests EXCEPT ![r] =
             afterTranscriptWrite(req, putOk, [req EXCEPT !.pc = "addMsg"])]
  /\ Fault(~putOk)
  /\ UNCHANGED <<clientVars, harnessCalls, gate, threads>>

\* lines 299-307: the participant's message
AddMessage(r, throws) ==
  /\ requests[r].pc = "addMsg"
  /\ LET req == requests[r]
         t == req.thread
     IN IF throws \/ ServiceRefusesMessage(t)
        THEN /\ requests' = [requests EXCEPT ![r] = Respond(req, 500, ServiceError)]
             /\ UNCHANGED threads
        ELSE /\ threads' = [threads EXCEPT ![t].msgs =
                  Append(@, ThreadMsg("user", req.body.message.text, participantContextType, "none",
                                      "none", r))]
             /\ requests' = [requests EXCEPT ![r] =
                  [req EXCEPT !.msgsAdded = req.msgsAdded + 1, !.pc = "createRun"]]
  /\ Fault(throws)
  /\ UNCHANGED <<clientVars, harnessCalls, gate, blobs>>

\* lines 309-316: runs.createAndPoll is called.  The service either starts a
\* run or the call throws; what it does when the thread has an active run is
\* not this repository's to decide, so both can happen then too.
CreateRun(r, throws) ==
  /\ requests[r].pc = "createRun"
  /\ LET req == requests[r]
         t == req.thread
         called == [req EXCEPT !.createCalls = req.createCalls + 1,
                               !.activeAtCreate = ActiveRunIndexes(t)]
     IN IF throws
        THEN /\ requests' = [requests EXCEPT ![r] = Respond(called, 500, ServiceError)]
             /\ UNCHANGED threads
        ELSE /\ threads' = [threads EXCEPT ![t].runs =
                  Append(@, [status |-> "queued", by |-> r])]
             /\ requests' = [requests EXCEPT ![r] =
                  [called EXCEPT !.runsCreated = req.runsCreated + 1,
                                 !.run = Len(threads[t].runs) + 1, !.pc = "polling"]]
  /\ Fault(throws)
  /\ UNCHANGED <<clientVars, harnessCalls, gate, blobs>>

\* the service moves a run on; a completed run leaves its assistant message
RunProgress(t, i, status) ==
  /\ i \in 1..Len(threads[t].runs)
  /\ LET run == threads[t].runs[i]
     IN /\ run.status \in {"queued", "in_progress"}
        /\ status \in {"completed", "failed"}
        /\ threads' = [threads EXCEPT
             ![t].runs[i].status = status,
             ![t].msgs = IF status = "completed"
                         THEN Append(@, ThreadMsg("assistant", <<"reply to", run.by>>,
                                                  "none", "none", "none", run.by))
                         ELSE @]
  /\ UNCHANGED <<clientVars, harnessCalls, faults, gate, requests, blobs>>

\* run.last_error?.message of the run createAndPoll returns: absent (or empty)
\* or a text
LastErrors == {<<>>, <<"Rate limit exceeded">>}

runError_statusOnly(status, lastError) == RunEndedWith(status)

\* line 321: run.last_error?.message || `Run ended with status ${run.status}`
runError(status, lastError) ==
  IF lastError # <<>> THEN lastError ELSE RunEndedWith(status)

\* lines 309-325: createAndPoll returns once the run is no longer queued, in
\* progress or cancelling
PollReturn(r, lastError) ==
  /\ requests[r].pc = "polling"
  /\ LET req == requests[r]
         status == threads[req.thread].runs[req.run].status
     IN /\ status \notin {"queued", "in_progress", "cancelling"}
        /\ status = "completed" => lastError = <<>>
        /\ requests' = [requests EXCEPT ![r] =
             IF status # "completed"
             THEN Respond([req EXCEPT !.runLastError = lastError], 500,
                          runError(status, lastError))
             ELSE [req EXCEPT !.pc = "readReply"]]
  /\ UNCHANGED <<clientVars, harnessCalls, faults, gate, threads, blobs>>

\* lines 327-336: the most recent assistant message of the thread
LastAssistantText(msgs) ==
  LET idx == {i \in 1..Len(msgs) : i > Len(msgs) - 20 /\ msgs[i].role = "assistant"}
  IN IF idx = {} THEN NoAssistantReply
     ELSE msgs[CHOOSE i \in idx : \A j \in idx : j <= i].text

\* lines 356-361
Respond200(req, reply) ==
  [req EXCEPT !.pc = "done", !.status = 200, !.reply = reply,
              !.resp = ResponseBody(req, reply)]

\* lines 327-342
ReadReply(r) ==
  /\ requests[r].pc = "readReply"
  /\ LET req == requests[r]
         reply == LastAssistantText(threads[req.thread].msgs)
     IN requests' = [requests EXCEPT ![r] =
          IF WritesTranscript(req.body) THEN [req EXCEPT !.pc = "twriteAsst", !.reply = reply]
          ELSE Respond200(req, reply)]
  /\ UNCHANGED <<clientVars, harnessCalls, faults, gate, threads, blobs>>

\* lines 342-361: the assistant entry; a failed put is caught
TWriteAsst(r, putOk) ==
  /\ requests[r].pc = "twriteAsst"
  /\ LET req == requests[r]
     IN /\ blobs' = IF putOk
                    THEN blobs \cup {TranscriptFile(req.body.transcriptId, "assistant",
                                                    req.reply, r)}
                    ELSE blobs
        /\ requests' = [requests EXCEPT ![r] =
             afterTranscriptWrite(req, putOk, Respond200(req, req.reply))]
  /\ Fault(~putOk)
  /\ UNCHANGED <<clientVars, harnessCalls, gate, threads>>

\* ------------------------------------------------------------ specifications
ClientInit ==
  /\ messages = <<>>
  /\ input = <<>>
  /\ threadId = Null
  /\ isLoading = FALSE
  /\ isRecording = FALSE
  /\ isTranscribing = FALSE
  /\ inputMode = "text"
  /\ transcriptIdRef = Null
  /\ transcriptFinalizedRef = FALSE
  /\ chatStartTimeRef = 0
  /\ chatCompletedRef = FALSE
  /\ now = EpochMs
  /\ embedded \in BOOLEAN
  /\ chatInflight = <<>>
  /\ posts = 0
  /\ summaries = <<>>
  /\ finTasks = <<>>
  /\ startRequests = 0
  /\ finalizeRequests = 0
  /\ finalizeWrites = <<>>
  /\ recordings = 0
  /\ sentinelReplies = 0
  /\ lastEvent = "none"
  /\ harnessCalls = 0

ServerIdle ==
  /\ gate = GateIdle
  /\ threads = <<>>
  /\ requests = <<>>
  /\ blobs = {}
  /\ faults = 0

Init == ClientInit /\ ServerIdle

chatResponseOk ==
  \E i \in 1..Len(chatInflight), reply \in Replies, tid \in ThreadIds :
    ChatResponseOk(i, reply, tid)

chatResponseNotOk ==
  \E i \in 1..Len(chatInflight), error \in ServerErrors : ChatResponseNotOk(i, error)

chatResponseThrow == \E i \in 1..Len(chatInflight) : ChatResponseThrow(i)

startResponseOk ==
  \E i \in 1..Len(finTasks), tid \in TranscriptIds, srvStartedAt \in {Null, "server"} :
    StartResponse(i, "ok", tid, srvStartedAt)

startResponseFailed ==
  \E i \in 1..Len(finTasks), result \in {"noid", "notok", "throw"} :
    StartResponse(i, result, Null, Null)

finalizeResponse ==
  \E i \in 1..Len(finTasks), result \in {"ok", "fail"} : FinalizeResponse(i, result)

Next ==
  \/ sendMessage
  \/ chatResponseOk
  \/ chatResponseNotOk
  \/ chatResponseThrow
  \/ startResponseOk
  \/ startResponseFailed
  \/ finalizeResponse
  \/ startRecording
  \/ \E usable \in BOOLEAN : stopRecording(usable)
  \/ \E usable \in BOOLEAN : recordingTimeout(usable)
  \/ \E transcript \in Transcripts : transcriptionDone(transcript)
  \/ \E text \in TypedTexts : setInput(text)
  \/ Tick

Spec == Init /\ [][Next]_vars

\* the completion of a chat request: the browser's fetch resolves or rejects
ChatCompletion == chatResponseOk \/ chatResponseNotOk \/ chatResponseThrow

LiveSpec == Spec /\ WF_vars(ChatCompletion)

\* a caller invoking finalizeTranscriptOnce directly, any number of times, with
\* the conversation as it stands
HarnessFinalize ==
  /\ harnessCalls < MaxHarnessCalls
  /\ harnessCalls' = harnessCalls + 1
  /\ finalizeTranscriptOnce(messages, threadId, threadId)
  /\ lastEvent' = "other"
  /\ UNCHANGED <<messages, input, threadId, isLoading, isRecording, isTranscribing,
                 inputMode, transcriptIdRef, chatStartTimeRef, chatCompletedRef, now,
                 embedded, chatInflight, posts, summaries, finalizeWrites, recordings,
                 sentinelReplies, serverVars>>

\* typed turns, their completions, the transcript requests, and the direct calls
FinalizeNext ==
  \/ HarnessFinalize
  \/ sendMessage
  \/ chatResponseOk
  \/ chatResponseNotOk
  \/ chatResponseThrow
  \/ startResponseOk
  \/ startResponseFailed
  \/ finalizeResponse
  \/ \E text \in TypedTexts : setInput(text)

SpecFinalize == Init /\ [][FinalizeNext]_vars

\* ------------------------------------------------------------------- claims

\* C1: an accepted sendMessage issues exactly one POST /api/chat (the POSTs
\* issued equal the user turns displayed), and no further request is issued
\* while one is in flight: at most one request is ever in flight, and the
\* in-flight flag is set while it is.
C1_OneRequestPerSubmission ==
  /\ Len(chatInflight) <= 1
  /\ posts = UserCount(messages)
  /\ (chatInflight # <<>> => isLoading)

\* a submit event arrived with non-empty text while a request was in flight,
\* and was refused
C1_Witness ==
  /\ lastEvent = "sendRejected"
  /\ Trim(input) # <<>>
  /\ Len(chatInflight) = 1
  /\ posts = 1

\* C2: every accepted submission eventually clears the in-flight flag, on
\* every exit path of the turn.
C2_InFlightEventuallyCleared == isLoading ~> ~isLoading

\* a turn ended by a thrown fetch, the flag is clear, and the next submission
\* was admitted
C2_Witness ==
  /\ lastEvent = "sendAccepted"
  /\ posts = 2
  /\ Len(messages) = 3
  /\ messages[2].text = NetworkError

\* C3: a rejected sendMessage changes nothing and sends nothing, and a
\* submission is accepted only with non-empty trimmed text, no request in
\* flight and no transcription resolving.
C3_RejectedIsNoOp ==
  [][/\ lastEvent' = "sendRejected" =>
          UNCHANGED <<messages, input, isLoading, threadId, chatStartTimeRef,
                      posts, chatInflight>>
     /\ lastEvent' = "sendAccepted" =>
          (Trim(input) # <<>> /\ ~isLoading /\ ~isTranscribing)]_vars

\* a submission refused because a transcription is resolving, before any turn
C3_Witness ==
  /\ lastEvent = "sendRejected"
  /\ isTranscribing
  /\ Trim(input) # <<>>
  /\ ~isLoading
  /\ chatStartTimeRef = 0

\* C4: the session completes exactly at the first successful reply that
\* contains the sentinel; at most one summary is ever posted and at most one
\* finalization is ever started, however many replies contain the sentinel.
C4_CompletesOnce ==
  /\ chatCompletedRef = (sentinelReplies > 0)
  /\ Len(summaries) = (IF embedded /\ sentinelReplies > 0 THEN 1 ELSE 0)
  /\ Len(finTasks) = (IF sentinelReplies > 0 THEN 1 ELSE 0)
  /\ startRequests <= 1

\* two replies with the sentinel were handled, one summary was posted
C4_Witness ==
  /\ sentinelReplies = 2
  /\ Len(summaries) = 1

\* C5: of any sequence of finalizeTranscriptOnce calls only the first
\* proceeds: at most one start request and at most one finalize request are
\* sent, and the latch is set in the step of the call that passes it.
C5_FinalizeLatch ==
  /\ startRequests <= 1
  /\ finalizeRequests <= 1
  /\ Len(finTasks) <= 1
  /\ transcriptFinalizedRef = (Len(finTasks) = 1)

\* finalizeTranscriptOnce was called again after the first call had sent its
\* start request
C5_Witness ==
  /\ harnessCalls = 2
  /\ startRequests = 1
  /\ Len(finTasks) = 1

AllFinalizationDone == \A i \in 1..Len(finTasks) : finTasks[i].pc = "done"

\* C6 as stated: once a completed session's finalization has run to its end,
\* exactly one finalize write has succeeded.
C6_ExactlyOneFinalizeSucceeds ==
  (chatCompletedRef /\ AllFinalizationDone) => Len(finalizeWrites) = 1

\* C6 as amended: at most one finalize write ever succeeds, only for a
\* completed session; a start request that succeeds is followed by exactly one
\* finalize request; and when finalization has run to its end, one write has
\* succeeded exactly if both the start request and the finalize request did.
C6_AtMostOneFinalizeSucceeds ==
  /\ Len(finalizeWrites) <= 1
  /\ (finalizeWrites # <<>> => chatCompletedRef)
  /\ \A i \in 1..Len(finTasks) :
       LET t == finTasks[i]
       IN /\ t.startResult = "ok" => (t.pc \in {"finalize", "done"} /\ finalizeRequests = 1)
          /\ t.pc = "done" =>
               (Len(finalizeWrites) = 1 <=> (t.startResult = "ok" /\ t.finResult = "ok"))

\* a completed session whose finalization ended with the transcript stored
C6_Witness ==
  /\ chatCompletedRef
  /\ AllFinalizationDone
  /\ Len(finalizeWrites) = 1
  /\ finalizeWrites[1].body # <<>>

\* ---- SpecGate
GateInit == ClientInit /\ embedded /\ ServerIdle

GateNext ==
  \/ GateCall
  \/ \E outcome \in {"throw", "active", "none"}, latency \in ListLatencies,
        late \in TimerLate : GatePoll(outcome, latency, late)
  \/ GateExit

SpecGate == GateInit /\ [][GateNext]_vars

\* every await of the loop settles: the run-list call returns or throws and
\* the timer of sleep fires
LiveSpecGate == SpecGate /\ WF_vars(GateNext)

\* ---- SpecServer: thread_1 exists from an earlier turn, whose run has ended
\* or is still going
EarlierThread(status) ==
  [exists |-> TRUE,
   msgs |-> <<ThreadMsg("user", <<"earlier">>, "none", "none", "none", "earlier")>>,
   runs |-> <<[status |-> status, by |-> "earlier"]>>,
   createdBy |-> "earlier"]

ServerInit ==
  /\ ClientInit /\ embedded
  /\ gate = GateIdle
  /\ \E status \in {"completed", "in_progress"} :
       threads = [t \in SrvThreadIds |->
                    IF t = "thread_1" THEN EarlierThread(status) ELSE NoThread]
  /\ requests = [r \in ReqIds |-> IdleRequest]
  /\ blobs = {}
  /\ faults = 0

arrive == \E r \in ReqIds, body \in Bodies : Arrive(r, body)

resolveThread ==
  \E r \in ReqIds, outcome \in {"ok", "retrieveFails", "createFails"} :
    ResolveThread(r, outcome)

\* the service is slow here: a run-list call takes ServerListLatencyMs, so
\* that a gate call uses up its wait within a few polls
gatePollReq ==
  \E r \in ReqIds, listThrows \in BOOLEAN :
    GatePollReq(r, listThrows, ServerListLatencyMs, 0)

injectBenefit == \E r \in ReqIds, throws \in BOOLEAN : InjectBenefit(r, throws)

injectRisk == \E r \in ReqIds, throws \in BOOLEAN : InjectRisk(r, throws)

twriteUser == \E r \in ReqIds, putOk \in BOOLEAN : TWriteUser(r, putOk)

addMessage == \E r \in ReqIds, throws \in BOOLEAN : AddMessage(r, throws)

createRun == \E r \in ReqIds, throws \in BOOLEAN : CreateRun(r, throws)

runProgress ==
  \E t \in SrvThreadIds, i \in 1..2 + Cardinality(ReqIds),
     status \in {"completed", "failed"} :
    RunProgress(t, i, status)

twriteAsst == \E r \in ReqIds, putOk \in BOOLEAN : TWriteAsst(r, putOk)

pollReturn == \E r \in ReqIds, lastError \in LastErrors : PollReturn(r, lastError)

ServerNext ==
  \/ arrive
  \/ resolveThread
  \/ gatePollReq
  \/ \E r \in ReqIds : GateExitReq(r)
  \/ injectBenefit
  \/ injectRisk
  \/ twriteUser
  \/ addMessage
  \/ createRun
  \/ runProgress
  \/ pollReturn
  \/ \E r \in ReqIds : ReadReply(r)
  \/ twriteAsst

SpecServer == ServerInit /\ [][ServerNext]_vars

\* -------------------------------------------------------------- claims C7-C10

\* C7 as stated: a call of waitForNoActiveRun whose every run-list poll showed
\* an active run returns blocked, no earlier than maxWaitMs after it started
\* and no later than maxWaitMs plus one poll interval (sleepMs).
C7_BlockedWithinOnePollInterval ==
  (gate.pc = "returned" /\ gate.allActive /\ ~gate.threw) =>
    /\ ~gate.ok
    /\ gate.elapsed >= maxWaitMs
    /\ gate.elapsed <= maxWaitMs + sleepMs

\* C7 amended: such a call returns blocked, no earlier than maxWaitMs after it
\* started, and less than the duration of its last iteration (the run-list
\* call plus the sleep) after maxWaitMs.
C7_BlockedWithinLastIteration ==
  (gate.pc = "returned" /\ gate.allActive /\ ~gate.threw) =>
    /\ ~gate.ok
    /\ gate.polls > 0
    /\ gate.elapsed >= maxWaitMs
    /\ gate.elapsed < maxWaitMs + gate.lastLatency + gate.lastSleep

C7_Witness ==
  /\ gate.pc = "returned" /\ gate.allActive /\ ~gate.threw /\ ~gate.ok
  /\ gate.polls > 0
  /\ gate.elapsed > maxWaitMs

\* C8: when a run-list poll throws, the gate returns clear at once, whatever
\* the earlier polls of the call saw, and the request goes on to the steps
\* after the gate: it is never answered 409, and it ends only with the answer
\* of a later step.
C8_FailOpen ==
  \A r \in ReqIds :
    LET req == requests[r]
    IN req.gate.threw =>
         /\ req.gate.pc = "returned" /\ req.gate.ok
         /\ req.gate.lastSleep = 0
         /\ req.pc \in {"injectBenefit", "injectRisk", "twriteUser", "addMsg",
                        "createRun", "polling", "readReply", "twriteAsst", "done"}
         /\ req.pc = "done" => req.status \in {200, 500}
         /\ req.status = 200 => req.msgsAdded = 1 /\ req.runsCreated = 1

C8_Witness ==
  \E r \in ReqIds :
    /\ requests[r].gate.threw /\ requests[r].gate.polls > 0
    /\ requests[r].msgsAdded = 1 /\ requests[r].runsCreated = 1

\* C9: when the gate returns blocked the request ends with status 409 and
\* the wait-a-moment error, having added no context or participant message,
\* created no run and written no transcript entry, and the server has called
\* the gate once only.
C9_BlockedIs409 ==
  \A r \in ReqIds :
    LET req == requests[r]
    IN (req.gate.pc = "returned" /\ ~req.gate.ok) =>
         /\ req.pc = "done" /\ req.status = 409 /\ req.error = ThreadBusyError
         /\ req.ctxAdded = 0 /\ req.msgsAdded = 0
         /\ req.createCalls = 0 /\ req.runsCreated = 0
         /\ req.twrites = 0
         /\ req.gateCalls = 1
         /\ \A m \in 1..Len(threads[req.thread].msgs) : threads[req.thread].msgs[m].by # r
         /\ \A b \in blobs : b.by # r

C9_Witness ==
  \E r \in ReqIds :
    /\ requests[r].gate.pc = "returned" /\ ~requests[r].gate.ok
    /\ requests[r].gate.polls > 0
    /\ requests[r].status = 409
    /\ WritesTranscript(requests[r].body)
    /\ safeContextValue(requests[r].body.topBenefit) # <<>>

\* C10 as stated: whatever the interleaving of the requests on a thread, the
\* thread never has two non-terminal runs, and no request calls run creation
\* while a run of the thread is non-terminal.
C10_NeverTwoActiveRuns ==
  /\ \A t \in SrvThreadIds : Cardinality(ActiveRunIndexes(t)) <= 1
  /\ \A r \in ReqIds : requests[r].activeAtCreate = {}

\* C10 amended: a request calls run creation only after its own gate call has
\* returned clear, and a run that is non-terminal at that call was created
\* after the poll that found the thread clear (or that poll threw).
C10_CreateOnlyAfterClearPoll ==
  \A r \in ReqIds :
    LET req == requests[r]
    IN req.createCalls > 0 =>
         /\ req.createCalls = 1 /\ req.gateCalls = 1
         /\ req.gate.pc = "returned" /\ req.gate.ok
         /\ req.gate.threw \/ \A i \in req.activeAtCreate : i > req.runsAtClear

C10_Witness ==
  \E r \in ReqIds :
    /\ requests[r].createCalls = 1 /\ requests[r].runsCreated = 1
    /\ requests[r].activeAtCreate # {}
    /\ ~requests[r].gate.threw
    /\ Cardinality(ActiveRunIndexes(requests[r].thread)) = 2

\* ------------------------------------------------------------- claims C11-C20

\* the context messages of thread t
ContextIndexes(t) ==
  {i \in 1..Len(threads[t].msgs) : threads[t].msgs[i].contextType = "survey_context"}

\* C11 as stated: on every thread each context value (topBenefit, topRisk) is
\* injected at most once: no two context messages of a thread carry the same
\* value for the same key.
C11_InjectedAtMostOnce ==
  \A t \in SrvThreadIds :
    \A i, j \in ContextIndexes(t) :
      LET m == threads[t].msgs[i]
          n == threads[t].msgs[j]
      IN (m.about = n.about /\ m.value = n.value) => i = j

\* the request is past its context injection
PastInjection(req) ==
  \/ req.pc \in {"twriteUser", "addMsg", "createRun", "polling", "readReply",
                 "twriteAsst"}
  \/ req.pc = "done" /\ req.gate.pc = "returned" /\ req.gate.ok

\* the context messages that request r added to its thread for the key about
ContextBy(r, about) ==
  IF requests[r].thread = Null THEN {}
  ELSE {i \in ContextIndexes(requests[r].thread) :
          /\ threads[requests[r].thread].msgs[i].by = r
          /\ threads[requests[r].thread].msgs[i].about = about}

\* the participant's message that request r added to its thread
ParticipantBy(r) ==
  IF requests[r].thread = Null THEN {}
  ELSE {i \in 1..Len(threads[requests[r].thread].msgs) :
          /\ threads[requests[r].thread].msgs[i].by = r
          /\ threads[requests[r].thread].msgs[i].role = "user"
          /\ threads[requests[r].thread].msgs[i].prefix = "none"}

\* the value the body supplies for the key about
Supplied(body, about) == IF about = "benefit" THEN body.topBenefit ELSE body.topRisk

\* C12 as stated: a turn that started a new thread has, once past its
\* injection, for every non-empty value exactly one context message of the
\* first-turn variant that holds the supplied value verbatim, for an empty
\* value none, all of them before the participant's message.
C12_ExactlyOneVerbatim ==
  \A r \in ReqIds : \A about \in {"benefit", "risk"} :
    LET req == requests[r]
        raw == Supplied(req.body, about)
        msgs == threads[req.thread].msgs
    IN (PastInjection(req) /\ req.isNewThread) =>
         /\ Cardinality(ContextBy(r, about)) = IF Trim(raw) # <<>> THEN 1 ELSE 0
         /\ \A i \in ContextBy(r, about) :
              /\ msgs[i].prefix = "SURVEY_CONTEXT"
              /\ ~Includes(msgs[i].text, OverrideInstruction)
              /\ Includes(msgs[i].text, raw)
              /\ \A j \in ParticipantBy(r) : i < j

\* C12 amended: such a turn has for every value at most one context message;
\* exactly one when the value is non-empty after safeContextValue and no
\* create of the injection failed, none when the value is empty after
\* safeContextValue.  The message is of the first-turn variant (prefix
\* SURVEY_CONTEXT, contextUpdate "0", no override sentence), holds the value as
\* safeContextValue returns it (trimmed, no CR, LF or tab) and precedes the
\* participant's message.
C12_AtMostOneSanitized ==
  \A r \in ReqIds : \A about \in {"benefit", "risk"} :
    LET req == requests[r]
        raw == Supplied(req.body, about)
        msgs == threads[req.thread].msgs
    IN (PastInjection(req) /\ req.isNewThread) =>
         /\ Cardinality(ContextBy(r, about)) <= 1
         /\ Trim(raw) = <<>> => ContextBy(r, about) = {}
         /\ (Trim(raw) # <<>> /\ ~req.ctxFailed) => Cardinality(ContextBy(r, about)) = 1
         /\ \A i \in ContextBy(r, about) :
              /\ msgs[i].prefix = "SURVEY_CONTEXT"
              /\ msgs[i].contextUpdate = "0"
              /\ ~Includes(msgs[i].text, OverrideInstruction)
              /\ msgs[i].value # <<>> /\ Trim(msgs[i].value) = msgs[i].value
              /\ \A k \in 1..Len(msgs[i].value) : msgs[i].value[k] \notin {"\r", "\n", "\t"}
              /\ Len(msgs[i].value) <= ContextCap
              /\ Includes(msgs[i].text, msgs[i].value)
              /\ Includes(Trim(raw), <<msgs[i].value[1]>>)
              /\ \A j \in ParticipantBy(r) : i < j

C12_Witness ==
  \E r \in ReqIds :
    /\ requests[r].isNewThread /\ requests[r].status = 200
    /\ requests[r].body.threadId = Null
    /\ Cardinality(ContextBy(r, "benefit")) = 1
    /\ ContextBy(r, "risk") = {}
    /\ ParticipantBy(r) # {}

\* C13: a context message added by a request that reuses an existing thread
\* is the update variant (prefix SURVEY_CONTEXT_UPDATE, the override
\* sentence, contextUpdate "1"); the first-turn variant is used exactly when
\* the request created the thread.
C13_UpdateVariantOnReuse ==
  \A t \in SrvThreadIds : \A i \in ContextIndexes(t) :
    LET m == threads[t].msgs[i]
        first == /\ m.prefix = "SURVEY_CONTEXT"
                 /\ m.contextUpdate = "0"
                 /\ m.text[1] = "SURVEY_CONTEXT"
                 /\ ~Includes(m.text, OverrideInstruction)
        update == /\ m.prefix = "SURVEY_CONTEXT_UPDATE"
                  /\ m.contextUpdate = "1"
                  /\ m.text[1] = "SURVEY_CONTEXT_UPDATE"
                  /\ Includes(m.text, OverrideInstruction)
    IN IF threads[t].createdBy = m.by THEN first ELSE update

C13_Witness ==
  \E r \in ReqIds : \E i \in ContextBy(r, "benefit") :
    /\ requests[r].body.threadId = "thread_1" /\ requests[r].thread = "thread_1"
    /\ threads["thread_1"].msgs[i].prefix = "SURVEY_CONTEXT_UPDATE"
    /\ \E q \in ReqIds : \E j \in ContextBy(q, "benefit") :
         /\ requests[q].body.threadId = "thread_1" /\ requests[q].thread # "thread_1"
         /\ threads[requests[q].thread].msgs[j].prefix = "SURVEY_CONTEXT"

\* C14: every message created by the context injection carries
\* contextType = survey_context and no participant message does: the tagged
\* messages of a request are as many as its injection created, the untagged
\* user messages as many as participant messages it added.
C14_ContextTagged ==
  /\ \A t \in SrvThreadIds : \A i \in 1..Len(threads[t].msgs) :
       LET m == threads[t].msgs[i]
       IN m.role = "user" =>
            (m.contextType = "survey_context" <=> m.prefix # "none")
  /\ \A r \in ReqIds :
       requests[r].thread # Null =>
         /\ Cardinality(ContextBy(r, "benefit") \cup ContextBy(r, "risk")) =
              requests[r].ctxAdded
         /\ Cardinality(ParticipantBy(r)) = requests[r].msgsAdded
         /\ \A i \in ParticipantBy(r) :
              threads[requests[r].thread].msgs[i].contextType # "survey_context"

C14_Witness ==
  \E r \in ReqIds :
    /\ requests[r].ctxAdded = 2 /\ requests[r].msgsAdded = 1
    /\ Cardinality(ContextIndexes(requests[r].thread)) >= 2

\* C15: a failed creation of a context message does not abort the turn: the
\* step in which the injection fails adds nothing to the thread, answers
\* nothing, and leaves the request at the step that follows a successful
\* injection (the transcript write, or adding the participant's message).
C15_InjectionFailureDoesNotAbort ==
  [][\A r \in ReqIds :
       (requests[r].pc \in {"injectBenefit", "injectRisk"} /\
        ~requests[r].ctxFailed /\ requests'[r].ctxFailed) =>
         /\ requests'[r].pc = StepAfterInject(requests[r].body)
         /\ requests'[r].status = 0 /\ requests'[r].error = <<>>
         /\ threads' = threads
         /\ requests'[r].ctxAdded = requests[r].ctxAdded]_vars

C15_Witness ==
  \E r \in ReqIds :
    /\ requests[r].ctxFailed /\ requests[r].ctxAdded = 0
    /\ requests[r].status = 200
    /\ requests[r].msgsAdded = 1 /\ requests[r].runsCreated = 1
    /\ requests[r].reply = <<"reply to", r>>

\* C16: a failed transcript write never fails the turn.  The step of the user
\* entry leaves the request about to add the participant's message whether
\* the put succeeded or not; the step of the assistant entry answers 200 with
\* the reply, threadId, transcriptId and participantId fixed before the write.
C16_TranscriptWriteBestEffort ==
  [][\A r \in ReqIds :
       /\ (requests[r].pc = "twriteUser" /\ requests'[r] # requests[r]) =>
            /\ requests'[r].pc = "addMsg" /\ requests'[r].status = 0
            /\ requests'[r].resp = NoResponse
       /\ (requests[r].pc = "twriteAsst" /\ requests'[r] # requests[r]) =>
            /\ requests'[r].pc = "done" /\ requests'[r].status = 200
            /\ requests'[r].resp = ResponseBody(requests[r], requests[r].reply)
            /\ requests'[r].resp.threadId = requests[r].thread]_vars

C16_Witness ==
  \E r \in ReqIds :
    /\ requests[r].twriteFailed /\ requests[r].twrites = 1
    /\ requests[r].status = 200
    /\ requests[r].resp.reply = <<"reply to", r>>
    /\ requests[r].resp.transcriptId = <<"tr", "1">>
    /\ requests[r].resp.participantId = <<"P7", " ", "x">>

\* C18: a request whose message is missing, not a string or empty is answered
\* 400 with the no-message error, and nothing has happened outside the
\* handler: no thread retrieved or created, no gate call, no message, no run,
\* no transcript entry.
C18_MissingMessageIs400 ==
  \A r \in ReqIds :
    LET req == requests[r]
    IN /\ (req.pc # "idle" /\ (~req.body.message.str \/ req.body.message.text = <<>>)) =>
            /\ req.pc = "done" /\ req.status = 400 /\ req.error = NoMessageProvided
       /\ req.status = 400 =>
            /\ req.thread = Null /\ req.gateCalls = 0
            /\ req.ctxAdded = 0 /\ req.msgsAdded = 0
            /\ req.createCalls = 0 /\ req.runsCreated = 0 /\ req.twrites = 0
            /\ req.resp = NoResponse
            /\ \A t \in SrvThreadIds :
                 /\ threads[t].createdBy # r
                 /\ \A i \in 1..Len(threads[t].msgs) : threads[t].msgs[i].by # r
                 /\ \A i \in 1..Len(threads[t].runs) : threads[t].runs[i].by # r
            /\ \A b \in blobs : b.by # r

C18_Witness ==
  /\ \E r \in ReqIds : requests[r].status = 400 /\ ~requests[r].body.message.str
  /\ \E r \in ReqIds :
       /\ requests[r].status = 400 /\ requests[r].body.message.str
       /\ WritesTranscript(requests[r].body)

\* C19: when the run of a turn ends in a status other than completed the
\* answer is 500 with the run's last_error message when there is one and the
\* text naming the status otherwise, without a reply and without an assistant
\* transcript entry.
C19_RunFailureIs500 ==
  \A r \in ReqIds :
    LET req == requests[r]
    IN (req.run # 0 /\ req.pc \notin {"polling"} /\
        threads[req.thread].runs[req.run].status # "completed") =>
         /\ req.pc = "done" /\ req.status = 500
         /\ req.error = IF req.runLastError # <<>> THEN req.runLastError
                        ELSE <<"Run ended with status",
                               threads[req.thread].runs[req.run].status>>
         /\ req.reply = <<>> /\ req.resp = NoResponse
         /\ \A b \in blobs : b.by = r => b.role # "assistant"

C19_Witness ==
  /\ \E r \in ReqIds :
       /\ requests[r].run # 0 /\ requests[r].status = 500
       /\ requests[r].error = <<"Rate limit exceeded">>
  /\ \E r \in ReqIds :
       /\ requests[r].run # 0 /\ requests[r].status = 500
       /\ requests[r].error = <<"Run ended with status", "failed">>
       /\ \E b \in blobs : b.by = r /\ b.role = "user"

\* ---- SpecSession: the browser session together with the chat route that
\* serves it.  The k-th submission of the session is handled as request
\* RequestOfPost(k); the payload of page.tsx:311-322 carries message, threadId
\* and inputMode only, so the route neither injects context nor writes
\* transcript entries, and with the turns of one session the gate finds no
\* run of an earlier turn still active when it gives up.
RequestOfPost(k) == IF k = 1 THEN "r1" ELSE "r2"

\* page.tsx:324-328 and route.ts:189: the pending fetch reaches the route
Deliver ==
  /\ chatInflight # <<>>
  /\ posts \in 1..Cardinality(ReqIds)
  /\ LET e == chatInflight[Len(chatInflight)]
     IN Arrive(RequestOfPost(posts),
               Body(StrMessage(e.message), e.payloadThreadId, <<>>, <<>>,
                    e.transcriptId, e.inputMode, <<>>))

\* route.ts:356-369 and page.tsx:330: the response reaches the page
Reply ==
  /\ chatInflight # <<>>
  /\ posts \in 1..Cardinality(ReqIds)
  /\ LET req == requests[RequestOfPost(posts)]
     IN /\ req.pc = "done"
        /\ IF req.status = 200
           THEN ChatResponseOk(Len(chatInflight), req.resp.reply, req.resp.threadId)
           ELSE ChatResponseNotOk(Len(chatInflight), req.error)

SessionInit ==
  /\ ClientInit /\ embedded
  /\ gate = GateIdle
  /\ threads = [t \in SrvThreadIds |-> NoThread]
  /\ requests = [r \in ReqIds |-> IdleRequest]
  /\ blobs = {}
  /\ faults = 0

SessionNext ==
  \/ sendMessage
  \/ \E text \in TypedTexts : setInput(text)
  \/ Deliver
  \/ resolveThread
  \/ gatePollReq
  \/ addMessage
  \/ createRun
  \/ runProgress
  \/ pollReturn
  \/ \E r \in ReqIds : ReadReply(r)
  \/ Reply
  \/ chatResponseThrow

SpecSession == SessionInit /\ [][SessionNext]_vars

\* C17: every request of the session carries the thread id the page holds
\* (none while it holds none), and the id the page holds changes only on the
\* 2xx response of a turn whose request carried the id held until then and
\* for which the route created a new thread, because none was held or because
\* retrieving the held one failed; that turn counts as a new thread.
C17_ThreadIdPinned ==
  [][/\ \A r \in ReqIds :
          (requests[r].pc = "idle" /\ requests'[r].pc # "idle") =>
            requests'[r].body.threadId = threadId
     /\ threadId' # threadId =>
          \E r \in ReqIds :
            /\ requests[r].status = 200
            /\ requests[r].resp.threadId = threadId'
            /\ requests[r].body.threadId = threadId
            /\ requests[r].isNewThread
            /\ threads[threadId'].createdBy = r]_vars

C17_Witness ==
  /\ threadId = "thread_2"
  /\ requests["r1"].resp.threadId = "thread_1"
  /\ requests["r2"].body.threadId = "thread_1"
  /\ requests["r2"].isNewThread /\ requests["r2"].status = 200

\* the texts of the error bubbles of a failed chat request
ErrorTexts == ServerErrors \cup {SomethingWentWrong, NetworkError}

\* C20: when the chat request is answered with a non-2xx status or throws,
\* the conversation then ends with an assistant message holding the error
\* text, the only error message after the user's message of that turn, which
\* stays where it was put; the thread id and the completed flag (with the
\* summaries and the finalization) are unchanged, and the in-flight flag is
\* cleared, so that a non-empty input is accepted again.
C20_ErrorBubble ==
  [][(chatInflight # <<>> /\ chatInflight' # chatInflight /\
      lastEvent' \in {"chatNotOk", "chatThrow"}) =>
       LET e == chatInflight[1]
           n == Len(messages')
       IN /\ n >= e.currentLen + 2
          /\ messages'[e.currentLen + 1] = Msg("user", e.message)
          /\ messages'[n].role = "assistant" /\ messages'[n].text \in ErrorTexts
          /\ Cardinality({k \in (e.currentLen + 2)..n :
                            messages'[k].text \in ErrorTexts}) = 1
          /\ threadId' = threadId
          /\ chatCompletedRef' = chatCompletedRef
          /\ summaries' = summaries /\ finTasks' = finTasks
          /\ ~isLoading' /\ chatInflight' = <<>>
          /\ (Trim(input') # <<>> /\ ~isTranscribing') => sendGuard']_vars

C20_Witness ==
  \E k \in 1..(Len(messages) - 1) :
    /\ messages[k].role = "assistant" /\ messages[k].text \in ErrorTexts
    /\ messages[k + 1].role = "user"
    /\ posts = 2 /\ threadId = Null /\ ~chatCompletedRef

\* ------------------------------------------------------------ claims C21-C30
\* C21: the displayed conversation is append-only: in every step the previous
\* message list is a prefix of the new one, whatever the voice path appended
\* while a chat turn was in flight.
C21_AppendOnly ==
  [][/\ Len(messages') >= Len(messages)
     /\ SubSeq(messages', 1, Len(messages)) = messages]_vars

\* C28: the completed flag is monotonic: once true, no later reply, failed
\* turn, submission or voice event resets it.
C28_CompletedMonotonic == [][chatCompletedRef => chatCompletedRef']_vars

\* after completion a second turn was submitted and failed, and a recording
\* was made
C28_Witness ==
  /\ chatCompletedRef
  /\ posts = 2 /\ recordings = 1
  /\ lastEvent \in {"chatNotOk", "chatThrow"}

\* the text holds the sentinel
HasSentinel(text) == \E k \in 1..Len(text) : text[k] = "END_INTERVIEW"

\* C29: the session becomes completed in a step if and only if the step
\* handles a 2xx chat response whose reply holds the sentinel while the
\* session is not yet completed; an error response never completes it.
C29_CompletesIffSentinelReply ==
  [][(~chatCompletedRef /\ chatCompletedRef') <=>
       (/\ ~chatCompletedRef
        /\ lastEvent' = "chatOk"
        /\ Len(chatInflight') < Len(chatInflight)
        /\ HasSentinel(messages'[Len(messages')].text))]_vars

\* an error text holding the sentinel was displayed and did not complete the
\* session; a later reply did
C29_Witness ==
  /\ chatCompletedRef /\ sentinelReplies = 1 /\ lastEvent = "chatOk"
  /\ \E k \in 1..Len(messages) :
       messages[k].text \in ServerErrors /\ HasSentinel(messages[k].text)

\* C30: the first-turn timestamp is set by the first accepted submission, to
\* the time of that submission, and never changes afterwards; the
\* durationSeconds of an emitted summary is the time from it to the completion
\* rounded to whole seconds (half up), and is null exactly when no timestamp
\* was recorded.
C30_StartTimeAndDuration ==
  [][/\ chatStartTimeRef # 0 => chatStartTimeRef' = chatStartTimeRef
     /\ (chatStartTimeRef = 0 /\ chatStartTimeRef' # 0) =>
          (posts = 0 /\ posts' = 1 /\ lastEvent' = "sendAccepted")
     /\ (posts = 0 /\ posts' = 1) => chatStartTimeRef' = now
     /\ Len(summaries') > Len(summaries) =>
          LET d == summaries'[Len(summaries')].durationSeconds
              elapsed == now - chatStartTimeRef
          IN IF chatStartTimeRef = 0 THEN d = NoDuration
             ELSE /\ d # NoDuration
                  /\ 1000 * d - 500 <= elapsed
                  /\ elapsed < 1000 * d + 500]_vars

\* the summary of a session completed at its second turn, half a second after
\* the first submission
C30_Witness ==
  /\ Len(summaries) = 1
  /\ summaries[1].durationSeconds = 1
  /\ summaries[1].completionTimestamp = chatStartTimeRef + 500
  /\ posts = 2

\* ------------------------------------------------------ the transcript routes
\* POST /api/transcript/start (src/app/api/transcribe/route.ts, lines 49-191),
\* POST /api/transcript/append (src/unnamed/part_000) and the per-message
\* writes of the chat route, against one blob store.  In SpecTranscript the
\* variable blobs holds the stored objects, one per path, and requests the
\* calls of the routes.
MaxTranscriptRequests == 2

TReqIds == 1..MaxTranscriptRequests

\* cleanTextBlock, part_000 lines 8-13
cleanTextBlock_trimOnly(s) == Trim(s)

cleanTextBlock(s) == Trim(NormaliseNewlines(s))

\* String.prototype.replace(/[...]+/g, " "): every run of characters of the
\* class becomes one space
ReplaceRuns(s, class) ==
  LET startsPiece(i) == ~(s[i] \in class /\ i > 1 /\ s[i - 1] \in class)
      pieces == SelectSeq([i \in 1..Len(s) |-> i], startsPiece)
  IN [k \in 1..Len(pieces) |-> IF s[pieces[k]] \in class THEN " " ELSE s[pieces[k]]]

\* String.prototype.slice(0, n)
Slice(s, n) == SubSeq(s, 1, IF Len(s) > n THEN n ELSE Len(s))

LineCap == 200

\* safeLine of the append route, part_000 lines 45-50; <<>> is "" and also
\* stands for a value that is not a string
safeLine(v) == Slice(ReplaceRuns(Trim(v), {"\r", "\n", "\t"}), LineCap)

\* safeLine of the start route, transcribe/route.ts lines 60-66: only carriage
\* returns and newlines are replaced, and nothing is cut
startSafeLine(v) == ReplaceRuns(Trim(v), {"\r", "\n"})

\* pickFirstNonEmptyLine, transcribe/route.ts lines 103-109
RECURSIVE pickFirstNonEmptyLine(_)
pickFirstNonEmptyLine(values) ==
  IF values = <<>> THEN <<>>
  ELSE IF startSafeLine(Head(values)) # <<>> THEN startSafeLine(Head(values))
  ELSE pickFirstNonEmptyLine(Tail(values))

\* safeIsoDate, transcribe/route.ts lines 68-78: the trimmed value when
\* Date.parse accepts it, normalised to ISO; <<>> is null
ParsableDates == {<<"2024-01-01T00:00:00.000Z">>}
safeIsoDate(v) == IF Trim(v) \in ParsableDates THEN Trim(v) ELSE <<>>

ServerIsoNow == <<"2024-06-01T00:00:00.000Z">>

\* normaliseRole, part_000 lines 15-27: trim, lower case, then the table
RoleTable == [user |-> "user", assistant |-> "assistant", you |-> "user", ai |-> "assistant", bot |-> "assistant"]
LowerCase == [User |-> "user", AI |-> "ai", user |-> "user", assistant |-> "assistant", admin |-> "admin"]
normaliseRole(raw) ==
  LET t == Trim(raw)
      v == IF Len(t) = 1 /\ t[1] \in DOMAIN LowerCase THEN LowerCase[t[1]] ELSE "other"
  IN IF v \in DOMAIN RoleTable THEN RoleTable[v] ELSE Null

\* part_000 lines 128-129: body.mode.trim().toLowerCase(), "append" when
\* body.mode is not a string (<<>>)
ModeLowerCase == [Finalize |-> "finalize", finalize |-> "finalize", append |-> "append"]
normaliseMode(raw) ==
  LET t == Trim(raw)
  IN IF raw = <<>> THEN "append"
     ELSE IF Len(t) = 1 /\ t[1] \in DOMAIN ModeLowerCase THEN ModeLowerCase[t[1]]
     ELSE "other"

\* String.prototype.endsWith("\n")
EndsWithNewline(s) == s # <<>> /\ s[Len(s)] = "\n"

WithNewline(s) == IF EndsWithNewline(s) THEN s ELSE s \o <<"\n">>

\* formatLine, part_000 lines 29-33
formatLine(ts, role, text) ==
  LET safe == cleanTextBlock(text)
  IN IF safe = <<>> THEN <<>>
     ELSE <<"[">> \o ts \o <<"] ", role, ": ">> \o safe \o <<"\n">>

\* ---- stored objects: the header fields in the order written, and the text
\* after the header
Field(name, value) == [name |-> name, value |-> value]

OptField(name, value) == IF value # <<>> THEN <<Field(name, value)>> ELSE <<>>

Object(path, title, header, body, writer) ==
  [path |-> path, title |-> title, header |-> header, body |-> body, writer |-> writer]

\* part_000 line 125 and transcribe/route.ts line 154
transcriptPath(transcriptId) == <<"chat-transcripts", "/">> \o transcriptId \o <<".txt">>

\* chat/route.ts line 88, with transcriptId = safeId(args.transcriptId)
messagePath(transcriptId, ts, role) ==
  <<"chat-transcripts", "/">> \o safeId(transcriptId) \o <<"/", "messages", "/", ts, "-", role, ".txt">>

Stored(path) == {o \in blobs : o.path = path}

Put_keepsExisting(object) == IF Stored(object.path) # {} THEN blobs ELSE blobs \cup {object}

\* put(path, ...): the object at the path is replaced
Put(object) == (blobs \ Stored(object.path)) \cup {object}

\* ---- request bodies; <<>> is a field that is absent or not a string
NoText == [str |-> FALSE, text |-> <<>>]
Str(text) == [str |-> TRUE, text |-> text]

TBody(route, transcriptId, mode, fullText, line, role, text, ts, participantId, prolificId, thread, startedAt) ==
  [route |-> route, transcriptId |-> transcriptId, mode |-> mode, fullText |-> fullText,
   line |-> line, role |-> role, text |-> text, ts |-> ts,
   participantId |-> participantId, prolificId |-> prolificId,
   threadId |-> thread, startedAt |-> startedAt]

AppendBody(transcriptId, role, text, line, ts, participantId) ==
  TBody("append", transcriptId, <<>>, NoText, line, role, text, ts, participantId, <<>>, <<>>, <<>>)

FinalizeBody(transcriptId, mode, fullText, participantId) ==
  TBody("append", transcriptId, mode, fullText, <<>>, <<>>, NoText, <<>>, participantId, <<>>, <<>>, <<>>)

StartBody(startedAt, participantId, prolificId, thread) ==
  TBody("start", <<>>, <<>>, NoText, <<>>, <<>>, NoText, <<>>, participantId, prolificId, thread, startedAt)

\* the arguments of writeTranscriptMessage (chat/route.ts lines 74-81); mode
\* holds inputMode
MessageArgs(transcriptId, role, text, thread) ==
  TBody("message", transcriptId, <<"text">>, NoText, <<>>, <<role>>, Str(text), <<>>, <<>>, <<>>, thread, <<>>)

NoTBody == TBody("none", <<>>, <<>>, NoText, <<>>, <<>>, NoText, <<>>, <<>>, <<>>, <<>>, <<>>)

\* a value longer than the cap of safeLine, with a newline and a tab inside
LongValue == [i \in 1..(LineCap + 2) |-> IF i = 2 THEN "\n" ELSE IF i = 4 THEN "\t" ELSE "x"]

HelloWorld == <<" ", " ", "Hello", " ", "\r", "\n", "\r", "\n", "World", " ", " ">>

AppendBodies ==
  { AppendBody(<<"tr1">>, <<"user">>, Str(<<"a">>), <<>>, <<"t1">>, <<>>),
    AppendBody(<<"tr1">>, <<" ", "AI", " ">>, Str(<<" ", "b", "\r", "\n", "c", " ">>), <<>>, <<>>, <<"P", "\t", "7">>),
    AppendBody(<<"tr1">>, <<>>, NoText, <<"raw", " ">>, <<>>, <<>>),
    AppendBody(<<"tr1">>, <<"user">>, Str(<<" ", "\r">>), <<>>, <<>>, <<>>),
    AppendBody(<<"tr1">>, <<"admin">>, Str(<<"a">>), <<>>, <<>>, <<>>),
    AppendBody(<<"tr1">>, <<"user">>, Str(<<>>), <<>>, <<>>, <<>>),
    AppendBody(<<>>, <<"user">>, Str(<<"a">>), <<>>, <<>>, <<>>),
    AppendBody(<<"tr1", "\n", "x">>, <<"user">>, Str(<<"a">>), <<>>, <<>>, LongValue) }

FinalizeBodies ==
  { FinalizeBody(<<"tr1">>, <<"finalize">>, Str(HelloWorld), <<>>),
    FinalizeBody(<<"tr1">>, <<"finalize">>, Str(<<"w", "\n">>), <<"P7">>),
    FinalizeBody(<<"tr1">>, <<"finalize">>, Str(<<>>), <<>>),
    FinalizeBody(<<"tr1">>, <<" ", "Finalize", " ">>, Str(<<" ", "\r", "\n">>), <<>>),
    FinalizeBody(<<"tr1">>, <<"finalize">>, NoText, <<>>),
    FinalizeBody(<<"tr2">>, <<"finalize">>, Str(<<"x", "\r", "y", "\n">>), LongValue),
    FinalizeBody(<<"tr1", "/", "messages", "/", "1000", "-", "user">>, <<"finalize">>, Str(<<"z">>), <<>>) }

StartBodies ==
  { StartBody(<<>>, <<>>, <<>>, <<>>),
    StartBody(<<" ", "2024-01-01T00:00:00.000Z">>, <<"P", "\t", "7">>, LongValue, <<"thread_1">>),
    StartBody(<<"soon">>, <<" ">>, <<"pr", "\r", "\n", "1">>, <<>>) }

MessageArgsSet ==
  { MessageArgs(<<"tr1">>, "user", <<"hi">>, <<"thread_1">>),
    MessageArgs(<<"tr1", "/">>, "user", <<"yo", "\r">>, <<"thread_2">>),
    MessageArgs(<<" ">>, "assistant", <<"hi">>, <<"thread_1">>) }

\* the ids makeTranscriptId can return (transcribe/route.ts lines 54-58)
GeneratedIds == {<<"tr1">>, <<"tr2">>}

\* Date.now() at a per-message write
Stamps == {"1000", "1001"}

NoObject == Object(<<>>, "none", <<>>, <<>>, <<>>)

TIdle == [pc |-> "idle", body |-> NoTBody, path |-> <<>>, newLine |-> <<>>, currentText |-> NoObject, toStore |-> NoObject, status |-> 0, resp |-> "none", overlapped |-> FALSE, readFailed |-> FALSE]

TRespond(req, status, resp) == [req EXCEPT !.pc = "done", !.status = status, !.resp = resp]

InFlight(q) == requests[q].pc \notin {"idle", "done"}

\* a request arrives (requests are numbered in the order of their arrival):
\* it overlaps the requests on the same path that are between their first and
\* their last access to the store
ArriveAs(r, req) ==
  /\ \A q \in TReqIds : q < r => requests[q].pc # "idle"
  /\ LET live == req.pc # "done"
         others == {q \in TReqIds \ {r} : InFlight(q) /\ requests[q].path = req.path}
     IN requests' = [q \in TReqIds |->
          IF q = r THEN [req EXCEPT !.overlapped = live /\ others # {}]
          ELSE IF live /\ q \in others THEN [requests[q] EXCEPT !.overlapped = TRUE]
          ELSE requests[q]]

\* buildFinalHeader, part_000 lines 100-117 (no metadata is sent)
buildFinalHeader(transcriptId, participantId) ==
  <<Field("TranscriptId", transcriptId)>> \o OptField("ParticipantID", Trim(participantId))

\* part_000 lines 274-286: the header of an object that append mode creates
appendHeader(transcriptId, participantId) ==
  <<Field("TranscriptId", transcriptId)>> \o OptField("ParticipantID", Trim(participantId))
    \o <<Field("StartedAt", ServerIsoNow)>>

\* part_000 line 140: !fullText || typeof fullText !== "string"
fullTextMissing(fullText) == ~fullText.str \/ fullText.text = <<>>

\* part_000 lines 136-206: finalize mode up to its put
finalizeMode(req, body, path, participantId) ==
  IF fullTextMissing(body.fullText)
  THEN TRespond(req, 400, "Missing fullText for finalize")
  ELSE LET safeTranscript == cleanTextBlock(body.fullText.text)
       IN IF safeTranscript = <<>> THEN TRespond(req, 200, "skipped")
          ELSE [req EXCEPT !.pc = "finalPut", !.path = path,
                  !.toStore = Object(path, "Chat transcript",
                                     buildFinalHeader(body.transcriptId, participantId),
                                     WithNewline(safeTranscript), body.transcriptId)]

\* part_000 lines 208-254: append mode up to its list
appendMode(req, body, path) ==
  LET ts == IF body.ts # <<>> THEN body.ts ELSE ServerIsoNow
      role == normaliseRole(body.role)
  IN IF Trim(body.line) # <<>>
     THEN IF cleanTextBlock(body.line) = <<>> THEN TRespond(req, 200, "skipped")
          ELSE [req EXCEPT !.pc = "list", !.path = path,
                           !.newLine = WithNewline(cleanTextBlock(body.line))]
     ELSE IF role = Null THEN TRespond(req, 400, "Invalid role")
     ELSE IF ~body.text.str \/ body.text.text = <<>> THEN TRespond(req, 400, "Missing text")
     ELSE IF formatLine(ts, role, body.text.text) = <<>> THEN TRespond(req, 200, "skipped")
     ELSE [req EXCEPT !.pc = "list", !.path = path,
                      !.newLine = formatLine(ts, role, body.text.text)]

\* POST /api/transcript/append, part_000 lines 119-254: up to the first
\* access to the store
TArrive(r, body) ==
  /\ requests[r].pc = "idle"
  /\ LET req == [requests[r] EXCEPT !.body = body]
         path == transcriptPath(body.transcriptId)
     IN ArriveAs(r,
          IF body.transcriptId = <<>> THEN TRespond(req, 400, "Missing transcriptId")
          ELSE IF normaliseMode(body.mode) = "finalize"
               THEN finalizeMode(req, body, path, safeLine(body.participantId))
          ELSE appendMode(req, body, path))
  /\ UNCHANGED <<clientVars, harnessCalls, gate, threads, blobs, faults>>

\* part_000 lines 194-199: the put of finalize mode
TFinalizePut(r, putOk) ==
  /\ requests[r].pc = "finalPut"
  /\ blobs' = IF putOk THEN Put(requests[r].toStore) ELSE blobs
  /\ requests' = [requests EXCEPT ![r] =
       IF putOk THEN TRespond(@, 200, "finalize")
       ELSE TRespond(@, 500, "Failed to write transcript")]
  /\ Fault(~putOk)
  /\ UNCHANGED <<clientVars, harnessCalls, gate, threads>>

\* part_000 lines 256-267: list, then readExistingText; outcome is "ok",
\* "readFails" (the fetch answers non-2xx or throws: the text read is "") or
\* "listThrows"
TAppendRead(r, outcome) ==
  /\ requests[r].pc = "list"
  /\ outcome = "readFails" => Stored(requests[r].path) # {}
  /\ LET req == requests[r]
     IN requests' = [requests EXCEPT ![r] =
          IF outcome = "listThrows" THEN TRespond(req, 500, "Failed to write transcript")
          ELSE [req EXCEPT !.pc = "put",
                  !.readFailed = (outcome = "readFails"),
                  !.currentText = IF outcome = "ok" /\ Stored(req.path) # {}
                                  THEN CHOOSE o \in Stored(req.path) : TRUE
                                  ELSE NoObject]]
  /\ Fault(outcome # "ok")
  /\ UNCHANGED <<clientVars, harnessCalls, gate, threads, blobs>>

textToExtend_reread(req) ==
  IF Stored(req.path) # {} THEN CHOOSE o \in Stored(req.path) : TRUE ELSE NoObject

\* part_000 lines 258 and 288: currentText is what the request read
textToExtend(req) == req.currentText

\* part_000 lines 269-297: the header when nothing was read, then the put of
\* currentText + newLine
TAppendPut(r, putOk) ==
  /\ requests[r].pc = "put"
  /\ LET req == requests[r]
         currentText ==
           IF textToExtend(req) = NoObject
           THEN Object(req.path, "Chat transcript started",
                       appendHeader(req.body.transcriptId, safeLine(req.body.participantId)),
                       <<>>, req.body.transcriptId)
           ELSE textToExtend(req)
         updatedText == [currentText EXCEPT !.body = @ \o req.newLine,
                                            !.writer = req.body.transcriptId]
     IN /\ blobs' = IF putOk THEN Put(updatedText) ELSE blobs
        /\ requests' = [requests EXCEPT ![r] =
             IF putOk THEN TRespond(req, 200, "append")
             ELSE TRespond(req, 500, "Failed to write transcript")]
  /\ Fault(~putOk)
  /\ UNCHANGED <<clientVars, harnessCalls, gate, threads>>

\* POST /api/transcript/start, transcribe/route.ts lines 111-188; the id is
\* one no object was stored under
TStart(r, body, transcriptId, putOk) ==
  /\ requests[r].pc = "idle"
  /\ Stored(transcriptPath(transcriptId)) = {}
  /\ LET startedAt == IF safeIsoDate(body.startedAt) # <<>>
                      THEN safeIsoDate(body.startedAt) ELSE ServerIsoNow
         participantId == pickFirstNonEmptyLine(<<body.participantId>>)
         prolificId == pickFirstNonEmptyLine(<<body.prolificId>>)
         thread == pickFirstNonEmptyLine(<<body.threadId>>)
         path == transcriptPath(transcriptId)
         initialText ==
           Object(path, "Chat transcript started",
                  <<Field("TranscriptId", transcriptId), Field("StartedAt", startedAt)>>
                    \o OptField("ParticipantID", participantId)
                    \o OptField("ProlificId", prolificId)
                    \o OptField("ThreadId", thread),
                  <<>>, transcriptId)
         req == [requests[r] EXCEPT !.body = body, !.path = path, !.toStore = initialText]
     IN /\ blobs' = IF putOk THEN Put(initialText) ELSE blobs
        /\ ArriveAs(r, IF putOk THEN TRespond(req, 200, "started")
                       ELSE TRespond(req, 500, "Failed to start transcript"))
  /\ Fault(~putOk)
  /\ UNCHANGED <<clientVars, harnessCalls, gate, threads>>

\* safeText, chat/route.ts lines 18-21
safeText(value) == LET keep(c) == c # "\r" IN SelectSeq(value, keep)

\* writeTranscriptMessage, chat/route.ts lines 74-105, called by the chat
\* route; put does not overwrite, so it throws when the path is taken
TMessageWrite(r, args, ts, putOk) ==
  /\ requests[r].pc = "idle"
  /\ LET path == messagePath(args.transcriptId, ts, args.role[1])
         content ==
           Object(path, "message",
                  <<Field("Timestamp", ServerIsoNow)>>
                    \o OptField("ThreadId", args.threadId)
                    \o OptField("ParticipantID", args.participantId)
                    \o OptField("InputMode", args.mode)
                    \o <<Field("Role", args.role)>>,
                  safeText(args.text.text) \o <<"\n">>, args.transcriptId)
         req == [requests[r] EXCEPT !.body = args, !.path = path, !.toStore = content]
     IN IF safeId(args.transcriptId) = <<>>
        THEN /\ putOk
             /\ ArriveAs(r, TRespond([req EXCEPT !.path = <<>>, !.toStore = NoObject], 0, "nothing"))
             /\ UNCHANGED blobs
        ELSE IF Stored(path) # {}
        THEN /\ putOk
             /\ ArriveAs(r, TRespond(req, 0, "threw"))
             /\ UNCHANGED blobs
        ELSE /\ blobs' = IF putOk THEN Put(content) ELSE blobs
             /\ ArriveAs(r, TRespond(req, 0, IF putOk THEN "written" ELSE "threw"))
  /\ Fault(~putOk)
  /\ UNCHANGED <<clientVars, harnessCalls, gate, threads>>

tArrive == \E r \in TReqIds, body \in AppendBodies \cup FinalizeBodies : TArrive(r, body)

tFinalizePut == \E r \in TReqIds, putOk \in BOOLEAN : TFinalizePut(r, putOk)

tAppendRead ==
  \E r \in TReqIds, outcome \in {"ok", "readFails", "listThrows"} : TAppendRead(r, outcome)

tAppendPut == \E r \in TReqIds, putOk \in BOOLEAN : TAppendPut(r, putOk)

tStart ==
  \E r \in TReqIds, body \in StartBodies, id \in GeneratedIds, putOk \in BOOLEAN :
    TStart(r, body, id, putOk)

tMessageWrite ==
  \E r \in TReqIds, args \in MessageArgsSet, ts \in Stamps, putOk \in BOOLEAN :
    TMessageWrite(r, args, ts, putOk)

TranscriptInit ==
  /\ ClientInit /\ embedded
  /\ gate = GateIdle
  /\ threads = <<>>
  /\ blobs = {}
  /\ faults = 0
  /\ requests = [q \in TReqIds |-> TIdle]

TranscriptNext ==
  \/ tArrive
  \/ tFinalizePut
  \/ tAppendRead
  \/ tAppendPut
  \/ tStart
  \/ tMessageWrite

SpecTranscript == TranscriptInit /\ [][TranscriptNext]_vars

\* ------------------------------------------------- claims C22-C27
\* the finalize call r stored text
FinalizeStored(r) == requests[r].pc = "finalPut" /\ requests'[r].resp = "finalize"

ObjectAt(store, path) == CHOOSE o \in store : o.path = path

NoCarriageReturn(s) == \A i \in 1..Len(s) : s[i] # "\r"

\* C22 as stated: a finalize of "  Hello \r\n\r\nWorld  " stores a body that,
\* cleaned, is "Hello\n\nWorld", and a stored body holds no carriage return.
C22_HelloWorldExact ==
  [][\A r \in TReqIds : FinalizeStored(r) =>
       LET stored == ObjectAt(blobs', requests[r].path).body
       IN /\ NoCarriageReturn(stored)
          /\ requests[r].body.fullText.text = HelloWorld =>
               cleanTextBlock(stored) = <<"Hello", "\n", "\n", "World">>]_vars

\* C22, amended: a finalize of "  Hello \r\n\r\nWorld  " stores the body
\* "Hello \n\nWorld" and a final newline: the space before the line break
\* stays.  In general the stored body holds no carriage return, and is the
\* input with "\r\n" and "\r" made "\n", without the white space at its two
\* ends, followed by one newline.
C22_FinalizeStoresCleaned ==
  [][\A r \in TReqIds : FinalizeStored(r) =>
       LET stored == ObjectAt(blobs', requests[r].path).body
           given == requests[r].body.fullText.text
       IN /\ Stored(requests[r].path)' # {}
          /\ NoCarriageReturn(stored)
          /\ stored = Trim(NormaliseNewlines(given)) \o <<"\n">>
          /\ stored[1] \notin WhiteSpace
          /\ given = HelloWorld =>
               stored = <<"Hello", " ", "\n", "\n", "World", "\n">>]_vars

C22_Witness ==
  \E r \in TReqIds :
    /\ requests[r].resp = "finalize"
    /\ requests[r].body.fullText.text = HelloWorld
    /\ \E o \in blobs : /\ o.path = transcriptPath(<<"tr1">>)
                        /\ o.title = "Chat transcript"
                        /\ o.body = <<"Hello", " ", "\n", "\n", "World", "\n">>

\* C23: every finalize request whose fullText is empty after cleaning, the
\* empty string included, writes nothing and is answered with success and
\* skipped: true.
C23_EmptyFinalizeSkipped ==
  \A r \in TReqIds :
    LET req == requests[r]
    IN (/\ req.pc = "done"
        /\ req.body.route = "append"
        /\ req.body.transcriptId # <<>>
        /\ normaliseMode(req.body.mode) = "finalize"
        /\ req.body.fullText.str
        /\ cleanTextBlock(req.body.fullText.text) = <<>>)
       => (req.status = 200 /\ req.resp = "skipped" /\ req.toStore = NoObject)

ScalarFields == {"TranscriptId", "ParticipantID", "StartedAt", "ProlificId", "ThreadId"}

SingleLine(value) == \A i \in 1..Len(value) : value[i] \notin {"\r", "\n", "\t"}

\* C24: every scalar header field that the start route or the append/finalize
\* route writes holds no newline and no tab and is at most the cap long.
C24_HeaderFieldsSafe ==
  \A o \in blobs :
    o.title # "message" =>
      \A i \in 1..Len(o.header) :
        o.header[i].name \in ScalarFields =>
          (SingleLine(o.header[i].value) /\ Len(o.header[i].value) <= LineCap)

\* the lines of the append requests k, k+1, ... on the path, in request order
RECURSIVE LinesOf(_, _)
LinesOf(path, k) ==
  IF k \notin TReqIds THEN <<>>
  ELSE (IF requests[k].path = path /\ requests[k].resp = "append"
        THEN requests[k].newLine ELSE <<>>) \o LinesOf(path, k + 1)

\* the requests that reached the store on the path
RequestsOn(path) == {r \in TReqIds : requests[r].pc # "idle" /\ requests[r].path = path}

\* C25: when the requests on one transcript object were all append-mode
\* requests, none overlapping another, each answered with success, the object
\* holds their lines, one per request, in request order.
C25_SequentialAppendsKeepLines ==
  \A q \in TReqIds :
    LET path == requests[q].path
    IN (/\ path # <<>>
        /\ \A r \in RequestsOn(path) :
             requests[r].resp = "append" /\ ~requests[r].overlapped)
       => (Stored(path) # {} /\ ObjectAt(blobs, path).body = LinesOf(path, 1))

\* C26: append mode is a read-modify-write that is not atomic: what a request
\* stores is the text it read earlier followed by its line, whatever was
\* stored in between.
C26_AppendIsReadModifyWrite ==
  [][\A r \in TReqIds :
       (requests[r].pc = "put" /\ requests'[r].resp = "append") =>
         LET req == requests[r]
             read == IF req.currentText = NoObject THEN <<>> ELSE req.currentText.body
         IN ObjectAt(blobs', req.path).body = read \o req.newLine]_vars

\* a lost update: two overlapping appends, no failure of the store, both
\* answered with success, and only the line of one of them is stored
C26_Witness ==
  \E a, b \in TReqIds :
    /\ a # b /\ faults = 0
    /\ requests[a].resp = "append" /\ requests[b].resp = "append"
    /\ requests[a].path = requests[b].path
    /\ requests[a].overlapped /\ requests[b].overlapped
    /\ ObjectAt(blobs, requests[a].path).body = requests[b].newLine

\* the transcript ids of the requests
KnownIds ==
  ({b.transcriptId : b \in AppendBodies \cup FinalizeBodies \cup MessageArgsSet}
     \cup GeneratedIds) \ {<<>>}

\* the storage keys of a transcript id: its transcript object and its
\* per-message files
KeysOf(transcriptId) ==
  {transcriptPath(transcriptId)} \cup
  (IF safeId(transcriptId) = <<>> THEN {}
   ELSE {messagePath(transcriptId, ts, role) : ts \in Stamps, role \in {"user", "assistant"}})

\* C27: a write for one transcript id never creates or modifies an object
\* under a storage key of another transcript id.
C27_KeysPerTranscriptId ==
  \A o \in blobs :
    \A other \in KnownIds : other # o.writer => o.path \notin KeysOf(other)

\* ------------------------------------------------------------ claims C31-C40
\* C31: when the summary is emitted its messageCount is the number of messages
\* of the snapshot handed to finalization in the same step, which is the
\* conversation then displayed with the completing reply last, and its
\* userMessageCount is the number of user messages of that snapshot.
C31_SummaryCounts ==
  [][Len(summaries') > Len(summaries) =>
       LET s == summaries'[Len(summaries')]
           snapshot == finTasks'[Len(finTasks')].snapshot
       IN /\ Len(finTasks') = Len(finTasks) + 1
          /\ snapshot = messages'
          /\ snapshot[Len(snapshot)].role = "assistant"
          /\ s.messageCount = Len(snapshot)
          /\ s.userMessageCount =
               Cardinality({k \in 1..Len(snapshot) : snapshot[k].role = "user"})]_vars

\* the summary of a session that had a failed turn and a voice-error bubble
\* before the completing turn
C31_Witness ==
  /\ Len(summaries) = 1
  /\ summaries[1].messageCount = 5 /\ summaries[1].userMessageCount = 2
  /\ \E k \in 1..Len(messages) : messages[k].text = CouldNotUnderstand
  /\ \E k \in 1..Len(messages) : messages[k].text \in ErrorTexts

\* C32 as stated: every call of waitForNoActiveRun has returned, clear or
\* blocked, no later than maxWaitMs plus one poll interval after it started.
C32_ReturnsWithinOnePollInterval ==
  gate.pc = "returned" => gate.elapsed <= maxWaitMs + sleepMs

\* C32 amended: every call of waitForNoActiveRun returns, whatever its polls
\* observe, when each run-list call returns or throws; it returns clear or
\* blocked, and later than maxWaitMs by less than the duration of its last
\* loop iteration (the run-list call, and the sleep when there was one).
C32_TerminatesWithinLastIteration ==
  /\ [](gate.pc = "returned" =>
          gate.elapsed < maxWaitMs + gate.lastLatency + gate.lastSleep)
  /\ (gate.pc = "loop" ~> gate.pc = "returned")

\* a call that returned blocked more than one poll interval after maxWaitMs
C32_Witness ==
  /\ gate.pc = "returned" /\ ~gate.ok
  /\ gate.elapsed > maxWaitMs + sleepMs
  /\ gate.lastLatency > 0

\* the run of request r has completed
RunCompleted(r) ==
  /\ requests[r].run # 0
  /\ threads[requests[r].thread].runs[requests[r].run].status = "completed"

\* C33: the steps of a chat request occur in the order gate clear, context
\* injection, participant's message, run creation, reading the reply once the
\* run has completed, assistant transcript entry.  A request has added
\* messages to the thread only after its gate call returned clear; its context
\* messages precede its participant's message, and are there when that
\* message is (for every supplied value, unless the injection failed); it has
\* called run creation only after adding the participant's message; it holds a
\* reply only of a completed run; the assistant entry is written only with the
\* reply read; and it answers 200 only after all of them.
C33_StepOrder ==
  \A r \in ReqIds :
    LET req == requests[r]
        context == ContextBy(r, "benefit") \cup ContextBy(r, "risk")
    IN /\ (context \cup ParticipantBy(r) # {}) =>
            (req.gate.pc = "returned" /\ req.gate.ok)
       /\ \A i \in context : \A j \in ParticipantBy(r) : i < j
       /\ (req.msgsAdded > 0 /\ ~req.ctxFailed) =>
            \A about \in {"benefit", "risk"} :
              safeContextValue(Supplied(req.body, about)) # <<>> =>
                ContextBy(r, about) # {}
       /\ req.createCalls > 0 => (req.msgsAdded = 1 /\ ParticipantBy(r) # {})
       /\ req.run # 0 => req.createCalls = 1
       /\ (req.reply # <<>> \/ req.pc \in {"readReply", "twriteAsst"}) => RunCompleted(r)
       /\ \A b \in blobs :
            (b.by = r /\ b.role = "assistant") =>
              (req.reply # <<>> /\ b.text = req.reply /\ RunCompleted(r))
       /\ req.status = 200 =>
            /\ req.gate.pc = "returned" /\ req.gate.ok
            /\ req.msgsAdded = 1 /\ req.runsCreated = 1 /\ RunCompleted(r)
            /\ req.reply # <<>>
            /\ (WritesTranscript(req.body) /\ ~req.twriteFailed) => req.twrites = 2

\* a successful request that injected both context values and wrote both
\* transcript entries
C33_Witness ==
  \E r \in ReqIds :
    /\ requests[r].status = 200
    /\ requests[r].ctxAdded = 2 /\ requests[r].twrites = 2
    /\ requests[r].gate.polls > 0
    /\ \E b \in blobs : b.by = r /\ b.role = "assistant"

\* the text holds words of a voice transcription (the typed texts and the
\* transcriptions have no word in common)
FromVoice(text) ==
  \E k \in 1..Len(text), t \in Transcripts :
    text[k] \notin WhiteSpace /\ \E j \in 1..Len(t) : t[j] = text[k]

\* C34: the inputMode sent with a turn is audio exactly when the submitted
\* text came from a voice transcription, and text when it was typed.
C34_InputModeIsProvenance ==
  \A i \in 1..Len(chatInflight) :
    chatInflight[i].inputMode = "audio" <=> FromVoice(chatInflight[i].message)

\* C35: a finalize with non-empty cleaned text replaces the stored object in
\* full: after the put the path holds one object, the final header followed by
\* the cleaned text and a final newline, whatever the path held before; and
\* the put of a finalize request is not refused because the object exists.
C35_FinalizeReplaces ==
  [][\A r \in TReqIds :
       /\ FinalizeStored(r) =>
            LET req == requests[r]
                given == req.body.fullText.text
            IN /\ Stored(req.path)' =
                    {Object(req.path, "Chat transcript",
                            buildFinalHeader(req.body.transcriptId,
                                             safeLine(req.body.participantId)),
                            Trim(NormaliseNewlines(given)) \o <<"\n">>,
                            req.body.transcriptId)}
               /\ \A o \in blobs' : o.path # req.path => o \in blobs
       /\ (requests[r].pc = "finalPut" /\ requests'[r].pc = "done" /\ faults' = faults) =>
            (requests'[r].status = 200 /\ requests'[r].resp = "finalize")]_vars

\* two finalize requests for one transcript id were both stored, the second
\* over the first
C35_Witness ==
  /\ requests[1].resp = "finalize" /\ requests[2].resp = "finalize"
  /\ requests[1].path = requests[2].path
  /\ requests[1].toStore # requests[2].toStore
  /\ ~requests[1].overlapped
  /\ Stored(requests[2].path) = {requests[2].toStore}

\* C36: nothing of the transcript exists before the session is completed: no
\* chat request carries a transcriptId, so that the chat route writes no
\* per-turn entry for it (route.ts line 283), and the start request, the
\* finalize request and the transcript id are there only once the session is
\* completed.
C36_NoTranscriptBeforeCompletion ==
  /\ \A i \in 1..Len(chatInflight) : ~WritesTranscript(chatInflight[i])
  /\ (\/ startRequests > 0 \/ finalizeRequests > 0
      \/ finTasks # <<>> \/ finalizeWrites # <<>>
      \/ transcriptIdRef # Null \/ transcriptFinalizedRef) => chatCompletedRef

\* a session completed at its second turn, whose transcript, stored by the
\* finalization, holds both turns
C36_Witness ==
  /\ posts = 2 /\ sentinelReplies = 1
  /\ Len(finalizeWrites) = 1
  /\ Len(finalizeWrites[1].body) = 4

\* C37: the reply of a successful chat request is the text of the assistant
\* message that the run created by that request produced.
C37_ReplyOfOwnRun ==
  \A r \in ReqIds :
    requests[r].status = 200 =>
      \E i \in 1..Len(threads[requests[r].thread].msgs) :
        LET m == threads[requests[r].thread].msgs[i]
        IN m.role = "assistant" /\ m.by = r /\ requests[r].resp.reply = m.text

\* C38: once the session is completed, a submission is still admitted, sent
\* and displayed, and its reply displayed, but no step emits a summary or
\* starts a finalization, and the snapshot of the finalization does not
\* change; a stored transcript holds the conversation up to the completing
\* reply and nothing after it.
C38_FixedAfterCompletion ==
  [][/\ chatCompletedRef =>
          /\ summaries' = summaries
          /\ Len(finTasks') = Len(finTasks)
          /\ startRequests' = startRequests
          /\ transcriptFinalizedRef' = transcriptFinalizedRef
          /\ \A i \in 1..Len(finTasks) : finTasks'[i].snapshot = finTasks[i].snapshot
          /\ lastEvent' = "sendAccepted" =>
               /\ posts' = posts + 1
               /\ Len(chatInflight') = Len(chatInflight) + 1
               /\ messages' = Append(messages, Msg("user", Trim(input)))
          /\ lastEvent' = "chatOk" =>
               /\ Len(messages') >= 2
               /\ messages'[Len(messages')].role = "assistant"
               /\ messages'[Len(messages') - 1].role = "user"
     /\ \A k \in 1..Len(finalizeWrites') :
          LET snap == finTasks'[1].snapshot
              body == finalizeWrites'[k].body
          IN /\ Len(finTasks') = 1
             /\ HasSentinel(snap[Len(snap)].text)
             /\ \A j \in 1..(Len(snap) - 1) : ~HasSentinel(snap[j].text) \/ snap[j].text \in ErrorTexts
             /\ body # <<>> /\ Len(body) <= Len(snap)
             /\ body[Len(body)] = Msg("assistant", cleanBlock(snap[Len(snap)].text))]_vars

\* the session was completed by its first turn; a second turn was submitted
\* and answered afterwards, and the stored transcript holds the first only
C38_Witness ==
  /\ chatCompletedRef /\ posts = 2 /\ chatInflight = <<>>
  /\ Len(messages) = 4 /\ messages[4].text \in Replies
  /\ Len(summaries) = 1 /\ summaries[1].messageCount = 2
  /\ Len(finalizeWrites) = 1 /\ Len(finalizeWrites[1].body) = 2

\* C39: a chat turn in flight and a voice transcription resolving never
\* overlap: isLoading and isTranscribing are never both true.
C39_NeverBothBusy == ~(isLoading /\ isTranscribing)

\* C40: every successful append-mode write leaves the content stored before
\* it as a prefix of the content stored after it, also when the read of the
\* existing object failed.
C40_AppendKeepsPrefix ==
  [][\A r \in TReqIds :
       (/\ requests[r].pc = "put" /\ requests'[r].resp = "append"
        /\ Stored(requests[r].path) # {}) =>
         LET old == ObjectAt(blobs, requests[r].path)
             new == ObjectAt(blobs', requests[r].path)
         IN /\ new.title = old.title /\ new.header = old.header
            /\ Len(new.body) >= Len(old.body)
            /\ SubSeq(new.body, 1, Len(old.body)) = old.body]_vars

====
